---- MODULE Spec2Model ----
(***************************************************************************)
(* Verification model of the backtesting core:                             *)
(*   - BacktestEngine (src/src/lib/backtest-engine.ts)                     *)
(*   - calculateMetrics (src/unnamed/part_005)                             *)
(*   - PriceAction30MStrategy (src/src/strategies/price-action-30m.ts)     *)
(*   - GridSearchOptimizer, GeneticOptimizer (src/unnamed/part_008)        *)
(*   - WalkForwardAnalyzer (src/unnamed/part_009)                          *)
(*   - MonteCarloSimulator (src/src/lib/monte-carlo.ts)                    *)
(*   - SMACrossoverStrategy (src/src/strategies/sma-crossover.ts)          *)
(*   - technical indicators (src/src/lib/optimizer/index.ts)               *)
(*   - PaperTradingSimulator (src/src/lib/data-feeds.ts)                   *)
(*                                                                         *)
(* Prices are integers (price units).  Money (equity, size, pnl,           *)
(* commission) is an exact rational [n, d] in lowest terms, so the         *)
(* accounting identities are decided exactly and not up to a floating      *)
(* tolerance.  A JavaScript array is an entry of `heap`; a field holding   *)
(* an array holds its index in `heap`, so that two holders of the same     *)
(* array see each other's writes.                                          *)
(***************************************************************************)
EXTENDS Integers, Sequences, FiniteSets, TLC

VARIABLES
    config,          \* BacktestEngine.config
    candles,         \* BacktestEngine.candles
    currentIndex,    \* BacktestEngine.currentIndex (0-based)
    position,        \* BacktestEngine.position: <<>> is null, <<p>> an open Position
    trades,          \* BacktestEngine.trades: index in heap of the Trade[] array
    equity,          \* BacktestEngine.equity (realised)
    equityCurve,     \* BacktestEngine.equityCurve: index in heap of the array
    tradeIdCounter,  \* BacktestEngine.tradeIdCounter
    heap,            \* the arrays allocated so far
    pc,              \* where the control of run() stands
    signal,          \* the value onCandle returned on this candle: <<>> is null
    callLog,         \* the calls run() has made to the strategy in this run
    results,         \* the BacktestResult objects returned so far, oldest first
    runs,            \* how many times run() was entered
    aborted,         \* how many of them a throwing strategy ended
    \* PriceAction30MStrategy, run on two candle series side by side
    candlesA,        \* Strategy.candles of the first run
    candlesB,        \* Strategy.candles of the second run
    strategyA,       \* fields of the first strategy object
    strategyB,       \* fields of the second strategy object
    nextIndex,       \* the index the next onCandle calls receive
    signalsA,        \* what onCandle returned in the first run, by index
    signalsB,        \* what onCandle returned in the second run, by index
    \* GridSearchOptimizer.optimize
    optimizationConfig,  \* GridSearchOptimizer.optimizationConfig
    combinations,    \* optimize: combinations
    i,               \* optimize: the loop counter
    allResults,      \* optimize: results, allResults of the returned object
    bestParams,      \* optimize: bestParams
    bestMetricValue, \* optimize: bestMetricValue
    totalCombinations, \* totalCombinations of the returned object
    evaluated,       \* the combinations the loop has handled, with their outcome
    progressCalls,   \* optimize: the calls made to onProgress
    gpc,             \* where the control of optimize() stands
    \* the analysis tools, one record of fields each
    genetic,         \* GeneticOptimizer and the locals of its optimize()
    walkForward,     \* WalkForwardAnalyzer and the locals of its analyze()
    monteCarlo,      \* MonteCarloSimulator and the locals of its simulate()
    metricsCall,     \* one call of calculateMetrics: its arguments and result
    indicatorCall,   \* one call of a technical indicator: its arguments and result
    paper,           \* PaperTradingSimulator fields
    enumeration      \* GridSearchOptimizer.generateCombinations, its loops step by step

engineVars == <<config, candles, currentIndex, position, trades, equity,
                equityCurve, tradeIdCounter, heap, pc, signal, callLog,
                results, runs, aborted>>

strategyVars == <<candlesA, candlesB, strategyA, strategyB, nextIndex, signalsA,
                  signalsB>>

gridVars == <<optimizationConfig, combinations, i, allResults, bestParams,
              bestMetricValue, totalCombinations, evaluated, progressCalls, gpc>>

\* What BacktestEngine.run leaves alone.
toolVars == <<genetic, walkForward, monteCarlo, metricsCall, indicatorCall, paper, enumeration>>

otherVars == <<strategyVars, gridVars, toolVars>>

vars == <<engineVars, strategyVars, gridVars, toolVars>>

\* A tool that has not been constructed.
Idle == [pc |-> "idle"]

\* No analysis tool but the named one exists.
IdleBut(tool) ==
    /\ tool # "genetic" => genetic = Idle
    /\ tool # "walkForward" => walkForward = Idle
    /\ tool # "monteCarlo" => monteCarlo = Idle
    /\ tool # "metricsCall" => metricsCall = Idle
    /\ tool # "indicatorCall" => indicatorCall = Idle
    /\ tool # "paper" => paper = Idle
    /\ tool # "enumeration" => enumeration = Idle

ToolsIdle == IdleBut("none")

----------------------------------------------------------------------------
(* Exact rational arithmetic for JavaScript number arithmetic on money.    *)

RECURSIVE GCD(_, _)
GCD(a, b) == IF b = 0 THEN a ELSE GCD(b, a % b)

Abs(x) == IF x < 0 THEN -x ELSE x

Rat(n, d) ==
    LET s == IF d < 0 THEN -1 ELSE 1
        g == GCD(Abs(n), Abs(d))
    IN  [n |-> (s * n) \div g, d |-> (s * d) \div g]

RInt(z) == [n |-> z, d |-> 1]

LCM(a, b) == (a \div GCD(a, b)) * b

RAdd(x, y) ==
    LET l == LCM(x.d, y.d)
    IN  Rat(x.n * (l \div x.d) + y.n * (l \div y.d), l)

RNeg(x) == [n |-> -x.n, d |-> x.d]

RSub(x, y) == RAdd(x, RNeg(y))

RMul(x, y) ==
    LET g1 == GCD(Abs(x.n), y.d)
        g2 == GCD(Abs(y.n), x.d)
        h1 == IF g1 = 0 THEN 1 ELSE g1
        h2 == IF g2 = 0 THEN 1 ELSE g2
    IN  Rat((x.n \div h1) * (y.n \div h2), (x.d \div h2) * (y.d \div h1))

\* x / y for y # 0
RDiv(x, y) == RMul(x, Rat(y.d, y.n))

RLe(x, y) ==
    LET l == LCM(x.d, y.d)
    IN  x.n * (l \div x.d) <= y.n * (l \div y.d)

RLt(x, y) == RLe(x, y) /\ x # y

RMin(x, y) == IF RLe(x, y) THEN x ELSE y

RECURSIVE RSum(_)
RSum(s) == IF s = <<>> THEN RInt(0) ELSE RAdd(Head(s), RSum(Tail(s)))

----------------------------------------------------------------------------
(* Bounds and input sets of the engine model.                              *)

MaxCandles == 2

\* Candle shapes (price units): flat, wide (reaches 4 and 8), up, down.
CandleShapes ==
    { [open |-> 6, high |-> 6, low |-> 6, close |-> 6],
      [open |-> 6, high |-> 8, low |-> 4, close |-> 6],
      [open |-> 6, high |-> 8, low |-> 6, close |-> 8],
      [open |-> 6, high |-> 6, low |-> 4, close |-> 4] }

\* Candle k (0-based) of a series is one minute after candle k-1.
WithTime(shape, k) ==
    [timestamp |-> 60000 * (k + 1), open |-> shape.open, high |-> shape.high,
     low |-> shape.low, close |-> shape.close]

CandleSeries ==
    UNION { { [k \in 1..n |-> WithTime(f[k], k - 1)] : f \in [1..n -> CandleShapes] }
            : n \in 1..MaxCandles }

\* BacktestConfig values.  slippage is in pips and a multiple of 100, so that
\* slippage * 0.01 is a whole number of price units.
Configs ==
    { [initialCapital |-> 100, commission |-> c, slippage |-> s,
       leverage |-> 1, maxPositionSize |-> Rat(1, 2)]
      : c \in {RInt(0), Rat(1, 8)}, s \in {0, 100} }

\* Signal values a strategy may return; 0 stands for an absent (undefined)
\* size, stopLoss or takeProfit, which JavaScript treats as falsy like 0.
\* The levels are none, a stop below and a target above the market, and a
\* stop above and a target below it.
SignalLevels == { <<0, 0>>, <<4, 8>>, <<8, 4>> }

\* A buy or sell carries levels, or an explicit size below the maximum.
Signals ==
    { [type |-> t, size |-> 0, stopLoss |-> lv[1], takeProfit |-> lv[2]]
      : t \in {"buy", "sell"}, lv \in SignalLevels }
    \cup { [type |-> t, size |-> 30, stopLoss |-> 0, takeProfit |-> 0]
           : t \in {"buy", "sell"} }
    \cup { [type |-> "close", size |-> 0, stopLoss |-> 0, takeProfit |-> 0] }

----------------------------------------------------------------------------
(* BacktestEngine: the private methods, as functions of the engine fields  *)
(* they read and write, e = [position, trades, equity, tradeIdCounter]     *)
(* where e.trades is the content of the this.trades array.                 *)

Truthy(x) == x # 0

\* this.config.slippage * 0.01
SlippageOffset(cfg) == cfg.slippage \div 100

OpenPosition(e, cfg, direction, candle, sig) ==
    LET maxSize == RMul(RMul(e.equity, cfg.maxPositionSize), RInt(cfg.leverage))
        size == IF Truthy(sig.size) THEN RMin(RInt(sig.size), maxSize) ELSE maxSize
        slippage == SlippageOffset(cfg)
        entryPrice == IF direction = "long" THEN candle.close + slippage
                                            ELSE candle.close - slippage
    IN  [e EXCEPT
            !.tradeIdCounter = e.tradeIdCounter + 1,
            !.position = << [id |-> e.tradeIdCounter + 1,
                             direction |-> direction,
                             entryTime |-> candle.timestamp,
                             entryPrice |-> entryPrice,
                             size |-> size,
                             stopLoss |-> sig.stopLoss,
                             takeProfit |-> sig.takeProfit] >>]

AdjustedExitPrice(p, cfg, exitPrice) ==
    IF p.direction = "long" THEN exitPrice - SlippageOffset(cfg)
                            ELSE exitPrice + SlippageOffset(cfg)

ClosePosition(e, cfg, exitPrice, exitTime) ==
    IF e.position = <<>> THEN e
    ELSE
    LET p == e.position[1]
        adjustedExitPrice == AdjustedExitPrice(p, cfg, exitPrice)
        priceDiff == IF p.direction = "long" THEN adjustedExitPrice - p.entryPrice
                                             ELSE p.entryPrice - adjustedExitPrice
        grossPnl == RMul(RInt(priceDiff), RDiv(p.size, RInt(p.entryPrice)))
        commission == RMul(RMul(p.size, cfg.commission), RInt(2))
        netPnl == RSub(grossPnl, commission)
        pnlPercent == RMul(RDiv(netPnl, RInt(cfg.initialCapital)), RInt(100))
        trade == [id |-> p.id,
                  entryTime |-> p.entryTime,
                  exitTime |-> exitTime,
                  entryPrice |-> p.entryPrice,
                  exitPrice |-> adjustedExitPrice,
                  direction |-> p.direction,
                  size |-> p.size,
                  pnl |-> netPnl,
                  pnlPercent |-> pnlPercent,
                  stopLoss |-> p.stopLoss,
                  takeProfit |-> p.takeProfit,
                  commission |-> commission]
    IN  [e EXCEPT !.trades = Append(e.trades, trade),
                  !.equity = RAdd(e.equity, netPnl),
                  !.position = <<>>]

\* Mutant: buy and sell open without testing that the slot is empty.
ExecuteSignalNoSlotTest(e, cfg, sig, candle) ==
    CASE sig.type = "buy" ->
            LET e1 == IF e.position # <<>> /\ e.position[1].direction = "short"
                      THEN ClosePosition(e, cfg, candle.close, candle.timestamp)
                      ELSE e
            IN  OpenPosition(e1, cfg, "long", candle, sig)
      [] sig.type = "sell" ->
            LET e1 == IF e.position # <<>> /\ e.position[1].direction = "long"
                      THEN ClosePosition(e, cfg, candle.close, candle.timestamp)
                      ELSE e
            IN  OpenPosition(e1, cfg, "short", candle, sig)
      [] sig.type = "close" ->
            IF e.position # <<>>
            THEN ClosePosition(e, cfg, candle.close, candle.timestamp)
            ELSE e
      [] OTHER -> e

\* Mutant: a buy on a long position, or a sell on a short one, moves the
\* position's levels to those of the signal.
ExecuteSignalUpdatesLevels(e, cfg, sig, candle) ==
    IF /\ e.position # <<>>
       /\ \/ sig.type = "buy" /\ e.position[1].direction = "long"
          \/ sig.type = "sell" /\ e.position[1].direction = "short"
    THEN [e EXCEPT !.position = << [e.position[1] EXCEPT
                                       !.stopLoss = sig.stopLoss,
                                       !.takeProfit = sig.takeProfit] >>]
    ELSE ExecuteSignalNoSlotTest(e, cfg, sig, candle)

ExecuteSignal(e, cfg, sig, candle) ==
    CASE sig.type = "buy" ->
            LET e1 == IF e.position # <<>> /\ e.position[1].direction = "short"
                      THEN ClosePosition(e, cfg, candle.close, candle.timestamp)
                      ELSE e
            IN  IF e1.position = <<>> THEN OpenPosition(e1, cfg, "long", candle, sig)
                                      ELSE e1
      [] sig.type = "sell" ->
            LET e1 == IF e.position # <<>> /\ e.position[1].direction = "long"
                      THEN ClosePosition(e, cfg, candle.close, candle.timestamp)
                      ELSE e
            IN  IF e1.position = <<>> THEN OpenPosition(e1, cfg, "short", candle, sig)
                                      ELSE e1
      [] sig.type = "close" ->
            IF e.position # <<>>
            THEN ClosePosition(e, cfg, candle.close, candle.timestamp)
            ELSE e
      [] OTHER -> e

\* Mutant: the take profit is tested before the stop loss.
ExitLevelTargetFirst(p, candle) ==
    IF p.direction = "long"
    THEN IF Truthy(p.takeProfit) /\ candle.high >= p.takeProfit THEN p.takeProfit
         ELSE IF Truthy(p.stopLoss) /\ candle.low <= p.stopLoss THEN p.stopLoss
         ELSE 0
    ELSE IF Truthy(p.takeProfit) /\ candle.low <= p.takeProfit THEN p.takeProfit
         ELSE IF Truthy(p.stopLoss) /\ candle.high >= p.stopLoss THEN p.stopLoss
         ELSE 0

\* The level checkExitConditions closes at on this candle, 0 when it returns
\* without closing.  The stop loss is tested before the take profit.
ExitLevel(p, candle) ==
    IF p.direction = "long"
    THEN IF Truthy(p.stopLoss) /\ candle.low <= p.stopLoss THEN p.stopLoss
         ELSE IF Truthy(p.takeProfit) /\ candle.high >= p.takeProfit THEN p.takeProfit
         ELSE 0
    ELSE IF Truthy(p.stopLoss) /\ candle.high >= p.stopLoss THEN p.stopLoss
         ELSE IF Truthy(p.takeProfit) /\ candle.low <= p.takeProfit THEN p.takeProfit
         ELSE 0

\* Mutant: the exit check closes at the candle's close.
CheckExitConditionsAtClose(e, cfg, candle) ==
    IF e.position = <<>> THEN e
    ELSE LET level == ExitLevel(e.position[1], candle)
         IN  IF level # 0 THEN ClosePosition(e, cfg, candle.close, candle.timestamp)
                          ELSE e

CheckExitConditions(e, cfg, candle) ==
    IF e.position = <<>> THEN e
    ELSE LET level == ExitLevel(e.position[1], candle)
         IN  IF level # 0 THEN ClosePosition(e, cfg, level, candle.timestamp)
                          ELSE e

\* The point updateEquityCurve pushes: realised equity plus the unrealised
\* pnl of the open position at the candle's close.
EquityPoint(e, candle) ==
    LET unrealizedPnl ==
            IF e.position = <<>> THEN RInt(0)
            ELSE LET p == e.position[1]
                     priceDiff == IF p.direction = "long"
                                  THEN candle.close - p.entryPrice
                                  ELSE p.entryPrice - candle.close
                 IN  RMul(RInt(priceDiff), RDiv(p.size, RInt(p.entryPrice)))
    IN  [timestamp |-> candle.timestamp, equity |-> RAdd(e.equity, unrealizedPnl)]

\* Mutant: the history stops before the current candle.
GetHistoricalCandlesBeforeCurrent(cs, index) == SubSeq(cs, 1, index)

\* this.candles.slice(0, this.currentIndex + 1)
GetHistoricalCandles(cs, index) == SubSeq(cs, 1, index + 1)

----------------------------------------------------------------------------
(* calculateMetrics: the fields the engine's result is judged by.          *)

PnlOf(ts) == [k \in 1..Len(ts) |-> ts[k].pnl]

CalculateMetrics(ts, curve, initialCapital) ==
    IF Len(ts) = 0
    THEN [totalReturn |-> RInt(0), totalReturnPercent |-> RInt(0), totalTrades |-> 0]
    ELSE LET finalEquity == IF Len(curve) > 0 THEN curve[Len(curve)].equity
                                              ELSE RInt(initialCapital)
             totalReturn == RSub(finalEquity, RInt(initialCapital))
         IN  [totalReturn |-> totalReturn,
              totalReturnPercent |->
                  RMul(RDiv(totalReturn, RInt(initialCapital)), RInt(100)),
              totalTrades |-> Len(ts)]

----------------------------------------------------------------------------
(* BacktestEngine.run, one action per step of its body.  pc names the      *)
(* statement run() executes next; "idle" is outside run().                 *)

\* The engine fields the private methods work on.
Core == [position |-> position, trades |-> heap[trades], equity |-> equity,
         tradeIdCounter |-> tradeIdCounter]

\* Writes the fields back; the trades array is changed in place (push).
SetCore(e) ==
    /\ position' = e.position
    /\ equity' = e.equity
    /\ tradeIdCounter' = e.tradeIdCounter
    /\ heap' = [heap EXCEPT ![trades] = e.trades]

Candle == candles[currentIndex + 1]

\* Mutant: the strategy is consulted, and its signal executed, before the
\* exit check.
RunLoopStrategyFirst ==
    <<"onCandle", "executeSignal", "checkExitConditions", "updateEquityCurve">>

\* The statements of the body of the for loop of run, in program order.
RunLoop == <<"checkExitConditions", "onCandle", "executeSignal", "updateEquityCurve">>

\* Control after statement stmt of the loop body: the next statement, or
\* after the last one currentIndex++ and the loop test again.
Advance(stmt) ==
    LET k == CHOOSE j \in 1..Len(RunLoop) : RunLoop[j] = stmt
    IN  IF k = Len(RunLoop)
        THEN [pc |-> RunLoop[1], currentIndex |-> currentIndex + 1, wraps |-> TRUE]
        ELSE [pc |-> RunLoop[k + 1], currentIndex |-> currentIndex, wraps |-> FALSE]

\* The loop test holds and stmt is the statement to execute.
AtStmt(stmt) == pc = stmt /\ currentIndex < Len(candles)

\* The loop test fails.
LoopDone == pc = RunLoop[1] /\ currentIndex >= Len(candles)

\* The engine as its constructor leaves it, with config cfg.
EngineInit(cfg) ==
    /\ config = cfg
    /\ candles = <<>>
    /\ currentIndex = 0
    /\ position = <<>>
    /\ heap = << <<>>, <<>> >>
    /\ trades = 1
    /\ equityCurve = 2
    /\ equity = RInt(config.initialCapital)
    /\ tradeIdCounter = 0
    /\ pc = "idle"
    /\ signal = <<>>
    /\ callLog = <<>>
    /\ results = <<>>
    /\ runs = 0
    /\ aborted = 0

\* No strategy comparison is under way.
StrategyIdle ==
    /\ candlesA = <<>>
    /\ candlesB = <<>>
    /\ strategyA = <<>>
    /\ strategyB = <<>>
    /\ nextIndex = 0
    /\ signalsA = <<>>
    /\ signalsB = <<>>

\* No optimizer exists.
GridIdle ==
    /\ optimizationConfig = <<>>
    /\ combinations = <<>>
    /\ i = 0
    /\ allResults = <<>>
    /\ bestParams = <<>>
    /\ bestMetricValue = <<>>
    /\ totalCombinations = 0
    /\ evaluated = <<>>
    /\ progressCalls = <<>>
    /\ gpc = "none"

Init ==
    /\ \E cfg \in Configs : EngineInit(cfg)
    /\ StrategyIdle
    /\ GridIdle
    /\ ToolsIdle

\* run([]): throws before anything is reset.
RunNoCandles(maxRuns) ==
    /\ pc = "idle"
    /\ runs < maxRuns
    /\ runs' = runs + 1
    /\ UNCHANGED <<otherVars, config, candles, currentIndex, position, trades, equity,
                   equityCurve, tradeIdCounter, heap, pc, signal, callLog, results, aborted>>

\* The arrays that returned results hold: result k holds the two arrays
\* allocated by the run that returned it.  An array nothing refers to any
\* more is garbage and leaves the heap.
LiveArrays == [k \in 1..(2 * Len(results)) |->
                  IF k % 2 = 1 THEN heap[results[(k + 1) \div 2].trades]
                               ELSE heap[results[k \div 2].equityCurve]]

\* Mutant: the reset empties the two arrays in place instead of allocating.
ResetStateClearsInPlace(cs) ==
    [candles |-> cs, currentIndex |-> 0, position |-> <<>>,
     heap |-> [heap EXCEPT ![trades] = <<>>, ![equityCurve] = <<>>],
     trades |-> trades,
     equity |-> RInt(config.initialCapital),
     equityCurve |-> equityCurve,
     tradeIdCounter |-> 0]

\* The "Reset state" block of run: the values it gives the engine fields.
\* this.trades and this.equityCurve get newly allocated arrays.
ResetState(cs) ==
    [candles |-> cs, currentIndex |-> 0, position |-> <<>>,
     heap |-> LiveArrays \o << <<>>, <<>> >>,
     trades |-> Len(LiveArrays) + 1,
     equity |-> RInt(config.initialCapital),
     equityCurve |-> Len(LiveArrays) + 2,
     tradeIdCounter |-> 0]

RunStart(cs, maxRuns) ==
    /\ pc = "idle"
    /\ runs < maxRuns
    /\ runs' = runs + 1
    /\ LET r == ResetState(cs)
       IN  /\ candles' = r.candles
           /\ currentIndex' = r.currentIndex
           /\ position' = r.position
           /\ heap' = r.heap
           /\ trades' = r.trades
           /\ equity' = r.equity
           /\ equityCurve' = r.equityCurve
           /\ tradeIdCounter' = r.tradeIdCounter
    /\ pc' = "init"
    /\ signal' = <<>>
    /\ callLog' = <<>>
    /\ UNCHANGED <<otherVars, config, results, aborted>>

\* strategy.init(this.candles, this.config)
StrategyInit ==
    /\ pc = "init"
    /\ callLog' = Append(callLog, [op |-> "init", candles |-> candles])
    /\ pc' = RunLoop[1]
    /\ UNCHANGED <<otherVars, config, candles, currentIndex, position, trades, equity,
                   equityCurve, tradeIdCounter, heap, signal, results, runs, aborted>>

\* this.checkExitConditions(candle)
CheckExit ==
    /\ AtStmt("checkExitConditions")
    /\ SetCore(CheckExitConditions(Core, config, Candle))
    /\ LET a == Advance("checkExitConditions")
       IN  /\ pc' = a.pc
           /\ currentIndex' = a.currentIndex
           /\ signal' = IF a.wraps THEN <<>> ELSE signal
    /\ UNCHANGED <<otherVars, config, candles, trades, equityCurve, callLog, results, runs, aborted>>

\* const signal = strategy.onCandle(this.currentIndex,
\*     this.getHistoricalCandles(), this.position), returning sig (<<>> is null).
OnCandle(sig) ==
    /\ AtStmt("onCandle")
    /\ callLog' = Append(callLog,
                         [op |-> "onCandle", index |-> currentIndex,
                          history |-> GetHistoricalCandles(candles, currentIndex),
                          position |-> position,
                          curveLen |-> Len(heap[equityCurve])])
    /\ LET a == Advance("onCandle")
       IN  /\ pc' = a.pc
           /\ currentIndex' = a.currentIndex
           /\ signal' = IF a.wraps THEN <<>> ELSE sig
    /\ UNCHANGED <<otherVars, config, candles, position, trades, equity, equityCurve,
                   tradeIdCounter, heap, results, runs, aborted>>

\* if (signal) this.executeSignal(signal, candle)
Execute ==
    /\ AtStmt("executeSignal")
    /\ SetCore(IF signal # <<>> THEN ExecuteSignal(Core, config, signal[1], Candle)
                                ELSE Core)
    /\ LET a == Advance("executeSignal")
       IN  /\ pc' = a.pc
           /\ currentIndex' = a.currentIndex
           /\ signal' = IF a.wraps THEN <<>> ELSE signal
    /\ UNCHANGED <<otherVars, config, candles, trades, equityCurve, callLog, results, runs, aborted>>

\* this.updateEquityCurve(candle); signal is local to the loop body.
UpdateEquityCurve ==
    /\ AtStmt("updateEquityCurve")
    /\ heap' = [heap EXCEPT ![equityCurve] = Append(@, EquityPoint(Core, Candle))]
    /\ LET a == Advance("updateEquityCurve")
       IN  /\ pc' = a.pc
           /\ currentIndex' = a.currentIndex
           /\ signal' = IF a.wraps THEN <<>> ELSE signal
    /\ UNCHANGED <<otherVars, config, candles, position, trades, equity, equityCurve,
                   tradeIdCounter, callLog, results, runs, aborted>>

\* Mutant: run goes on to onComplete without closing the open position.
CloseAtEndSkipped ==
    /\ LoopDone
    /\ pc' = "onComplete"
    /\ UNCHANGED <<otherVars, config, candles, currentIndex, position, trades, equity,
                   equityCurve, tradeIdCounter, heap, signal, callLog, results,
                   runs, aborted>>

\* After the loop: close any open position at the last candle's close.
CloseAtEnd ==
    /\ LoopDone
    /\ LET lastCandle == candles[Len(candles)]
       IN  SetCore(IF position # <<>>
                   THEN ClosePosition(Core, config, lastCandle.close, lastCandle.timestamp)
                   ELSE Core)
    /\ pc' = "onComplete"
    /\ UNCHANGED <<otherVars, config, candles, currentIndex, trades, equityCurve, signal,
                   callLog, results, runs, aborted>>

\* strategy.onComplete(this.trades)
OnComplete ==
    /\ pc = "onComplete"
    /\ callLog' = Append(callLog, [op |-> "onComplete", trades |-> heap[trades],
                                   position |-> position])
    /\ pc' = "return"
    /\ UNCHANGED <<otherVars, config, candles, currentIndex, position, trades, equity,
                   equityCurve, tradeIdCounter, heap, signal, results, runs, aborted>>

\* calculateMetrics(...) and the return statement.  The result holds the
\* engine's own trades and equityCurve arrays; tradesAtReturn and
\* equityCurveAtReturn record what they held when run returned, and
\* openPosition the position slot at that moment.
Return ==
    /\ pc = "return"
    /\ results' = Append(results,
          [trades |-> trades,
           equityCurve |-> equityCurve,
           config |-> config,
           metrics |-> CalculateMetrics(heap[trades], heap[equityCurve],
                                        config.initialCapital),
           startDate |-> candles[1].timestamp,
           endDate |-> candles[Len(candles)].timestamp,
           candleCount |-> Len(candles),
           openPosition |-> position,
           positionsOpened |-> tradeIdCounter,
           tradesAtReturn |-> heap[trades],
           equityCurveAtReturn |-> heap[equityCurve]])
    /\ pc' = "idle"
    /\ UNCHANGED <<otherVars, config, candles, currentIndex, position, trades, equity,
                   equityCurve, tradeIdCounter, heap, signal, callLog, runs, aborted>>

\* strategy.init, onCandle or onComplete throws: the exception leaves run,
\* which has no handler, with the engine fields as they are.
StrategyThrows ==
    /\ pc \in {"init", "onCandle", "onComplete"}
    /\ pc' = "idle"
    /\ aborted' = aborted + 1
    /\ UNCHANGED <<otherVars, config, candles, currentIndex, position, trades, equity,
                   equityCurve, tradeIdCounter, heap, signal, callLog, results, runs>>

SignalReturns(sigs) == {<<>>} \cup { <<sg>> : sg \in sigs }

\* One run of a newly constructed engine.
Next ==
    \/ RunNoCandles(1)
    \/ \E cs \in CandleSeries : RunStart(cs, 1)
    \/ StrategyInit
    \/ CheckExit
    \/ \E sig \in SignalReturns(Signals) : OnCandle(sig)
    \/ Execute
    \/ UpdateEquityCurve
    \/ CloseAtEnd
    \/ OnComplete
    \/ Return
    \/ StrategyThrows

Spec == Init /\ [][Next]_vars

----------------------------------------------------------------------------
(* Claims about one run of the engine.                                     *)

LastOf(sq) == sq[Len(sq)]

\* The last point of a returned equity curve: finalEquity of calculateMetrics.
FinalEquity(r) == LastOf(r.equityCurveAtReturn).equity

\* C1 (as claimed): for every returned result the sum of pnl over its trades
\* equals finalEquity - initialCapital, finalEquity being the last point of
\* the returned equity curve.
C1_SumPnlIsFinalEquityMinusCapital ==
    \A k \in 1..Len(results) :
        RSum(PnlOf(results[k].tradesAtReturn))
            = RSub(FinalEquity(results[k]), RInt(results[k].config.initialCapital))

\* The contents of the engine's two arrays.
Trades == heap[trades]

Curve == heap[equityCurve]

IsPrefix(a, b) == Len(a) <= Len(b) /\ SubSeq(b, 1, Len(a)) = a

\* this.config.slippage * 0.01, in price units.
Slip == (config.slippage * 1) \div 100

\* The stop-loss / take-profit test of the claims, stated on its own: the
\* levels of position p that candle c reaches.
StopReached(p, c) ==
    /\ p.stopLoss # 0
    /\ IF p.direction = "long" THEN c.low <= p.stopLoss ELSE c.high >= p.stopLoss

TargetReached(p, c) ==
    /\ p.takeProfit # 0
    /\ IF p.direction = "long" THEN c.high >= p.takeProfit ELSE c.low <= p.takeProfit

ReachedLevels(p, c) ==
    (IF StopReached(p, c) THEN {p.stopLoss} ELSE {})
        \cup (IF TargetReached(p, c) THEN {p.takeProfit} ELSE {})

\* A price after the exit slippage of a position of direction dir.
AfterSlippage(dir, price) == IF dir = "long" THEN price - Slip ELSE price + Slip

\* The step about to be taken is the exit check of a candle that reaches a
\* level of the open position.
ExitTriggers ==
    /\ AtStmt("checkExitConditions")
    /\ position # <<>>
    /\ ReachedLevels(position[1], Candle) # {}

\* The onCandle entries of callLog.
OnCandleCalls == SelectSeq(callLog, LAMBDA c : c.op = "onCandle")

\* C2: on every candle i the exit check comes first, then onCandle(i) with
\* the position as the exit check left it (never one whose stop or target
\* candle i reaches), then the execution of the signal, then the append of
\* point i of the equity curve; and executing a signal only appends to the
\* trades, so an exit the candle triggered is neither prevented nor altered.
C2_StateOrder ==
    /\ \A k \in 1..Len(OnCandleCalls) :
          LET c == OnCandleCalls[k]
          IN  /\ c.curveLen = c.index
              /\ c.position # <<>> =>
                    ReachedLevels(c.position[1], candles[c.index + 1]) = {}
    /\ pc \in {"executeSignal", "updateEquityCurve"} =>
          /\ Len(Curve) = currentIndex
          /\ Len(OnCandleCalls) = currentIndex + 1
    /\ pc = "onCandle" =>
          /\ Len(Curve) = currentIndex
          /\ Len(OnCandleCalls) = currentIndex
          /\ position # <<>> => ReachedLevels(position[1], Candle) = {}

C2_StepOrder ==
    /\ ExitTriggers =>
          /\ position' = <<>>
          /\ Len(Trades') = Len(Trades) + 1
          /\ pc' = "onCandle"
    /\ AtStmt("onCandle") /\ callLog' # callLog =>
          /\ LastOf(callLog').position = position
          /\ UNCHANGED <<position, heap, equity>>
          /\ pc' = "executeSignal"
    /\ AtStmt("executeSignal") =>
          /\ IsPrefix(Trades, Trades')
          /\ Curve' = Curve
          /\ pc' = "updateEquityCurve"
    /\ AtStmt("updateEquityCurve") =>
          /\ Len(Curve') = currentIndex + 1
          /\ Trades' = Trades
          /\ currentIndex' = currentIndex + 1

\* C2: the order holds in every state and of every step of a run.
C2_ExitCheckBeforeStrategy == []C2_StateOrder /\ [][C2_StepOrder]_vars

\* The exit check closed a position on this candle, onCandle then received
\* null and returned a signal that opened a new position.
C2_Witness ==
    /\ pc = "updateEquityCurve"
    /\ Len(Trades) = 1
    /\ Trades[1].exitTime = Candle.timestamp
    /\ Trades[1].entryTime < Candle.timestamp
    /\ LastOf(callLog).position = <<>>
    /\ signal # <<>>
    /\ position # <<>>

\* C3 (as claimed): when the exit check triggers, the position is closed on
\* that candle and the trade's exitPrice is exactly the stop-loss or
\* take-profit level that triggered, for every config.
C3_ExitPriceIsExactLevelStep ==
    ExitTriggers =>
        /\ position' = <<>>
        /\ Len(Trades') = Len(Trades) + 1
        /\ LastOf(Trades').exitTime = Candle.timestamp
        /\ LastOf(Trades').exitPrice \in ReachedLevels(position[1], Candle)

\* C3 (as claimed): every step of the exit check that triggers closes at
\* exactly the level.
C3_ExitPriceIsExactLevel == [][C3_ExitPriceIsExactLevelStep]_vars

\* C3 (amended): when the exit check triggers, the position is closed on that
\* candle and the trade's exitPrice is a level that triggered, moved by the
\* slippage offset (down for a long, up for a short); with slippage 0 it is
\* exactly that level.
C3_ExitPriceIsLevelAfterSlippageStep ==
    ExitTriggers =>
        /\ position' = <<>>
        /\ Len(Trades') = Len(Trades) + 1
        /\ LastOf(Trades').id = position[1].id
        /\ LastOf(Trades').exitTime = Candle.timestamp
        /\ LastOf(Trades').exitPrice \in
              { AfterSlippage(position[1].direction, l)
                  : l \in ReachedLevels(position[1], Candle) }
        /\ config.slippage = 0 =>
              LastOf(Trades').exitPrice \in ReachedLevels(position[1], Candle)

\* C3 (amended): every step of the exit check that triggers closes at the
\* level moved by the slippage offset.
C3_ExitPriceIsLevelAfterSlippage == [][C3_ExitPriceIsLevelAfterSlippageStep]_vars

\* The exit check has just closed a position at a level, moved by a non-zero
\* slippage, that is not the candle's close.
C3_Witness ==
    /\ AtStmt("onCandle")
    /\ position = <<>>
    /\ Len(Trades) >= 1
    /\ LastOf(Trades).exitTime = Candle.timestamp
    /\ config.slippage # 0
    /\ LastOf(Trades).exitPrice # AfterSlippage(LastOf(Trades).direction, Candle.close)
    /\ LastOf(Trades).exitPrice # Candle.close

Opposite(dir) == IF dir = "long" THEN "short" ELSE "long"

\* The signal about to be executed reverses the open position.
Reverses ==
    /\ AtStmt("executeSignal")
    /\ signal # <<>>
    /\ position # <<>>
    /\ \/ signal[1].type = "buy" /\ position[1].direction = "short"
       \/ signal[1].type = "sell" /\ position[1].direction = "long"

\* C4: one position slot; every position opened is either the open one or has
\* become exactly one trade carrying its id, so a returned result has as many
\* trades as positions were opened; a position replaces an open one only
\* after that one was closed into a trade; a buy (sell) on an open short
\* (long) closes it at the candle's close (through the exit slippage) and
\* opens the opposite position on the same candle.
C4_StateSlot ==
    /\ Len(position) <= 1
    /\ tradeIdCounter = Len(Trades) + Len(position)
    /\ \A k \in 1..Len(Trades) : Trades[k].id = k
    /\ position # <<>> => position[1].id = tradeIdCounter
    /\ \A k \in 1..Len(results) :
          /\ Len(results[k].tradesAtReturn) = results[k].positionsOpened
          /\ \A j \in 1..Len(results[k].tradesAtReturn) :
                results[k].tradesAtReturn[j].id = j

C4_StepSlot ==
    /\ (position' # <<>> /\ position' # position) =>
          \/ position = <<>>
          \/ /\ Len(Trades') = Len(Trades) + 1
             /\ LastOf(Trades').id = position[1].id
             /\ position'[1].id = position[1].id + 1
    /\ Reverses =>
          /\ Len(Trades') = Len(Trades) + 1
          /\ LastOf(Trades').id = position[1].id
          /\ LastOf(Trades').direction = position[1].direction
          /\ LastOf(Trades').exitTime = Candle.timestamp
          /\ LastOf(Trades').exitPrice
                = AfterSlippage(position[1].direction, Candle.close)
          /\ position' # <<>>
          /\ position'[1].direction = Opposite(position[1].direction)
          /\ position'[1].entryTime = Candle.timestamp
          /\ position'[1].id = position[1].id + 1

\* C4: one slot and one trade per position in every state, and every step
\* that fills the slot or reverses the position does it as described.
C4_OneSlotOneTradePerPosition == []C4_StateSlot /\ [][C4_StepSlot]_vars

\* A buy on an open short has just been executed.
C4_Witness ==
    /\ pc = "updateEquityCurve"
    /\ signal # <<>> /\ signal[1].type = "buy"
    /\ LastOf(callLog).position # <<>>
    /\ LastOf(callLog).position[1].direction = "short"
    /\ position # <<>> /\ position[1].direction = "long"
    /\ LastOf(Trades).exitTime = Candle.timestamp
    /\ tradeIdCounter = 2

\* C6: the calls of one run are init once, then onCandle once for each index
\* 0, 1, ... in increasing order, each with history = candles[0..index], then
\* onComplete once; a returned run has made all N + 2 of them.
C6_CallsInOrder ==
    /\ Len(callLog) <= Len(candles) + 2
    /\ \A k \in 1..Len(callLog) :
          IF k = 1 THEN callLog[k].op = "init"
          ELSE IF k <= Len(candles) + 1
          THEN /\ callLog[k].op = "onCandle"
               /\ callLog[k].index = k - 2
               /\ Len(callLog[k].history) = callLog[k].index + 1
               /\ \A j \in 1..(k - 1) : callLog[k].history[j] = candles[j]
          ELSE callLog[k].op = "onComplete"
    /\ (pc = "idle" /\ results # <<>>) => Len(callLog) = Len(candles) + 2
    /\ pc = "onComplete" => Len(callLog) = Len(candles) + 1

\* A run over more than one candle has returned.
C6_Witness ==
    /\ pc = "idle"
    /\ results # <<>>
    /\ Len(candles) >= 2
    /\ LastOf(callLog).op = "onComplete"

\* The loop is over and a position is still open.
StillOpenAtEnd == LoopDone /\ position # <<>>

\* C8: a position still open after the last candle is closed at the last
\* candle's close (through the exit slippage) with exitTime the last candle's
\* timestamp, before onComplete is called; no returned result leaves a
\* position open, and onComplete receives the complete trade list.
C8_StateClosed ==
    /\ \A k \in 1..Len(results) :
          /\ results[k].openPosition = <<>>
          /\ results[k].positionsOpened = Len(results[k].tradesAtReturn)
    /\ pc \in {"onComplete", "return"} => position = <<>>
    /\ (callLog # <<>> /\ LastOf(callLog).op = "onComplete") =>
          /\ LastOf(callLog).position = <<>>
          /\ Len(LastOf(callLog).trades) = tradeIdCounter
          /\ LastOf(callLog).trades = Trades

C8_StepClosed ==
    StillOpenAtEnd =>
        /\ position' = <<>>
        /\ Trades' = Append(Trades, LastOf(Trades'))
        /\ LastOf(Trades').id = position[1].id
        /\ LastOf(Trades').exitTime = LastOf(candles).timestamp
        /\ LastOf(Trades').exitPrice
              = AfterSlippage(position[1].direction, LastOf(candles).close)
        /\ pc' = "onComplete"
        /\ callLog' = callLog

\* C8: no result or onComplete call sees an open position, and the step after
\* the loop closes one still open at the last candle's close.
C8_OpenPositionClosedAtEnd == []C8_StateClosed /\ [][C8_StepClosed]_vars

\* onComplete has received a trade list whose last trade is the forced close
\* of a position that was opened before the last candle.
C8_Witness ==
    /\ pc = "return"
    /\ Len(candles) >= 2
    /\ LastOf(callLog).op = "onComplete"
    /\ LastOf(callLog).trades # <<>>
    /\ LastOf(LastOf(callLog).trades).exitTime = LastOf(candles).timestamp
    /\ LastOf(LastOf(callLog).trades).entryTime < LastOf(candles).timestamp
    /\ callLog[Len(callLog) - 1].position # <<>>
    /\ LastOf(Curve).equity # equity

----------------------------------------------------------------------------
(* Several runs on one engine instance, some of them aborted by a          *)
(* strategy that throws.                                                   *)

MaxRuns == 2

\* Candle series of the reused engine: candles that close where they opened,
\* the later ones reaching 4 and 8.
ReuseSeries ==
    LET flat == [open |-> 6, high |-> 6, low |-> 6, close |-> 6]
        wide == [open |-> 6, high |-> 8, low |-> 4, close |-> 6]
    IN  { << WithTime(flat, 0) >>,
          << WithTime(flat, 0), WithTime(wide, 1) >>,
          << WithTime(wide, 0), WithTime(wide, 1) >> }

\* Signals of a strategy that buys with a stop at 4 and a target at 8, or closes.
ReuseSignals ==
    { [type |-> "buy", size |-> 0, stopLoss |-> 4, takeProfit |-> 8],
      [type |-> "close", size |-> 0, stopLoss |-> 0, takeProfit |-> 0] }

NextReuse ==
    \/ RunNoCandles(MaxRuns)
    \/ \E cs \in ReuseSeries : RunStart(cs, MaxRuns)
    \/ StrategyInit
    \/ CheckExit
    \/ \E sig \in SignalReturns(ReuseSignals) : OnCandle(sig)
    \/ Execute
    \/ UpdateEquityCurve
    \/ CloseAtEnd
    \/ OnComplete
    \/ Return
    \/ StrategyThrows

SpecReuse == Init /\ [][NextReuse]_vars

\* C5: every run, whatever the runs before it did (returned, or were aborted
\* by a throwing strategy), begins its work in the state a newly constructed
\* engine with the same config begins it in: no position, empty trades, empty
\* equity curve, equity = initialCapital, ID counter 0.  So the trade ids of
\* every result start at 1 again, and the arrays of a returned result are
\* those of no other result nor of a run in progress, and still hold what
\* they held when the result was returned.
C5_RunsStartFresh ==
    /\ pc = "init" =>
          /\ position = <<>>
          /\ Trades = <<>>
          /\ Curve = <<>>
          /\ equity = RInt(config.initialCapital)
          /\ tradeIdCounter = 0
          /\ currentIndex = 0
    /\ \A k \in 1..Len(results) :
          /\ heap[results[k].trades] = results[k].tradesAtReturn
          /\ heap[results[k].equityCurve] = results[k].equityCurveAtReturn
          /\ \A j \in 1..Len(results[k].tradesAtReturn) :
                results[k].tradesAtReturn[j].id = j
          /\ Len(results[k].equityCurveAtReturn) = results[k].candleCount
          /\ \A l \in 1..Len(results) :
                l # k => /\ results[l].trades # results[k].trades
                         /\ results[l].equityCurve # results[k].equityCurve
          /\ pc # "idle" => /\ trades # results[k].trades
                            /\ equityCurve # results[k].equityCurve

\* A run has returned trades after an earlier run on the same engine made a
\* trade and was then aborted by the strategy.
C5_Witness ==
    /\ pc = "idle"
    /\ runs = 2
    /\ aborted = 1
    /\ Len(results) = 1
    /\ results[1].tradesAtReturn # <<>>
    /\ Len(callLog) = Len(candles) + 2
    /\ Len(candles) = 2

----------------------------------------------------------------------------
(* PriceAction30MStrategy (src/strategies/price-action-30m.ts), with the   *)
(* candle aggregation it uses.  Prices are whole numbers.                  *)

\* The constructor's params: the defaults with a 3-minute timeframe, a
\* 1-minute entry wait and a 2-point minimum wick, so that three periods fit
\* in a short series.
PA30MParams ==
    [timeframeMinutes |-> 3, minWickPips |-> 2, entryWaitMinutes |-> 1,
     slTpRatio |-> 2, useZoneTP |-> TRUE, autoBreakevenPips |-> 2,
     enableCounterTrend |-> TRUE, maxCounterTrendPips |-> 10,
     srZoneTolerance |-> 5,
     avoidUSAOpen1Hour |-> 13, avoidUSAOpen1Minute |-> 0,
     avoidUSAOpen2Hour |-> 14, avoidUSAOpen2Minute |-> 30,
     safeEntryAfterMinutes |-> 30]

Max2(a, b) == IF a >= b THEN a ELSE b

Min2(a, b) == IF a <= b THEN a ELSE b

RECURSIVE MaxOf(_, _)
MaxOf(cs, field) ==
    IF Len(cs) = 1 THEN cs[1][field]
    ELSE Max2(cs[1][field], MaxOf(Tail(cs), field))

RECURSIVE MinOf(_, _)
MinOf(cs, field) ==
    IF Len(cs) = 1 THEN cs[1][field]
    ELSE Min2(cs[1][field], MinOf(Tail(cs), field))

\* createAggregatedCandle(candles, periodStart)
CreateAggregatedCandle(cs, periodStart) ==
    [timestamp |-> periodStart, open |-> cs[1].open, high |-> MaxOf(cs, "high"),
     low |-> MinOf(cs, "low"), close |-> cs[Len(cs)].close]

\* The for loop of aggregateCandles from candle k on.
RECURSIVE AggregateFrom(_, _, _, _, _)
AggregateFrom(cs, k, periodMs, currentPeriodStart, periodCandles) ==
    IF k > Len(cs)
    THEN IF periodCandles # <<>>
         THEN << CreateAggregatedCandle(periodCandles, currentPeriodStart) >>
         ELSE <<>>
    ELSE LET candlePeriodStart == (cs[k].timestamp \div periodMs) * periodMs
         IN  IF candlePeriodStart # currentPeriodStart /\ periodCandles # <<>>
             THEN << CreateAggregatedCandle(periodCandles, currentPeriodStart) >>
                  \o AggregateFrom(cs, k + 1, periodMs, candlePeriodStart, << cs[k] >>)
             ELSE AggregateFrom(cs, k + 1, periodMs, currentPeriodStart,
                                Append(periodCandles, cs[k]))

\* aggregateCandles(candles, periodMinutes)
AggregateCandles(cs, periodMinutes) ==
    IF cs = <<>> THEN <<>>
    ELSE IF periodMinutes <= 1 THEN cs
    ELSE LET periodMs == periodMinutes * 60 * 1000
         IN  AggregateFrom(cs, 1, periodMs,
                           (cs[1].timestamp \div periodMs) * periodMs, <<>>)

\* detectSRZones(candles, config): [] for fewer than 10 candles, which is
\* every series here.
DetectSRZones(c30) == <<>>

\* onInit and detectTrend / updateFibonacci: with fewer than 20 aggregated
\* candles the trend is neutral, lastSwingHigh stays 0 and fibLevels null.
\* candles30M is the aggregation of the WHOLE series handed to init.
OnInit(cs) ==
    [candles30M |-> AggregateCandles(cs, PA30MParams.timeframeMinutes),
     srZones |-> DetectSRZones(AggregateCandles(cs, PA30MParams.timeframeMinutes)),
     currentTrend |-> "neutral",
     fibLevels |-> <<>>,
     pendingEntry |-> <<>>]

\* get30MIndex(oneMinIndex): 0-based, -1 when findIndex finds nothing.
Get30MIndex(st, cs, oneMinIndex) ==
    LET periodMs == PA30MParams.timeframeMinutes * 60 * 1000
        periodStart == (cs[oneMinIndex + 1].timestamp \div periodMs) * periodMs
        found == { j \in 1..Len(st.candles30M) : st.candles30M[j].timestamp = periodStart }
    IN  IF found = {} THEN -1
        ELSE (CHOOSE j \in found : \A l \in found : j <= l) - 1

\* getWickSize(candle, direction)
GetWickSize(candle, direction) ==
    IF direction = "up" THEN candle.high - Max2(candle.open, candle.close)
                        ELSE Min2(candle.open, candle.close) - candle.low

\* isUSAOpenTime(timestamp)
IsUSAOpenTime(timestamp) ==
    LET hours == (timestamp \div 3600000) % 24
        minutes == (timestamp \div 60000) % 60
    IN  \/ /\ hours = PA30MParams.avoidUSAOpen1Hour
           /\ minutes >= PA30MParams.avoidUSAOpen1Minute
           /\ minutes < PA30MParams.avoidUSAOpen1Minute + PA30MParams.safeEntryAfterMinutes
        \/ /\ hours = PA30MParams.avoidUSAOpen2Hour
           /\ minutes >= PA30MParams.avoidUSAOpen2Minute
           /\ minutes < PA30MParams.avoidUSAOpen2Minute + PA30MParams.safeEntryAfterMinutes

\* findNearestZone(price, zones, direction): <<>> is null.
FindNearestZone(price, zones, direction) ==
    LET side == { k \in 1..Len(zones) :
                    IF direction = "above" THEN zones[k].price > price
                                           ELSE zones[k].price < price }
    IN  IF side = {} THEN <<>>
        ELSE << zones[CHOOSE k \in side :
                    \A l \in side :
                        IF direction = "above"
                        THEN zones[k].price < zones[l].price
                                 \/ (zones[k].price = zones[l].price /\ k <= l)
                        ELSE zones[k].price > zones[l].price
                                 \/ (zones[k].price = zones[l].price /\ k <= l)] >>

\* isZoneConfirmed(zone)
IsZoneConfirmed(zone) == zone.touches >= 1 /\ zone.wickRejection /\ ~zone.wasFlipped

\* checkEntryConditions, "Strong wick rejection entry (any trend)"
WickRejectsLower(prevCandle) ==
    /\ GetWickSize(prevCandle, "down") >= PA30MParams.minWickPips
    /\ prevCandle.close > prevCandle.open
    /\ 2 * GetWickSize(prevCandle, "down") >= 3 * Abs(prevCandle.close - prevCandle.open)

\* The zones of srZones of one type.
ZonesOfType(st, type) == SelectSeq(st.srZones, LAMBDA z : z.type = type)

\* checkEntryConditions, "Check at support zone"
AtConfirmedSupport(st, price, prevCandle) ==
    LET nearestSupport == FindNearestZone(price, ZonesOfType(st, "support"), "below")
    IN  /\ nearestSupport # <<>>
        /\ price >= nearestSupport[1].low
        /\ 1000 * price <= 1001 * nearestSupport[1].high
        /\ IsZoneConfirmed(nearestSupport[1])
        /\ GetWickSize(prevCandle, "down") >= PA30MParams.minWickPips

\* checkEntryConditions, "Strong upper wick rejection (any trend, bearish candle)"
WickRejectsUpper(prevCandle) ==
    /\ GetWickSize(prevCandle, "up") >= PA30MParams.minWickPips
    /\ prevCandle.close < prevCandle.open
    /\ 2 * GetWickSize(prevCandle, "up") >= 3 * Abs(prevCandle.close - prevCandle.open)

\* checkEntryConditions, "Counter-trend short at 0.667 Fib level"
AtFib667(st, price, prevCandle) ==
    /\ PA30MParams.enableCounterTrend
    /\ st.fibLevels # <<>>
    /\ price >= st.fibLevels[1].fib667 - PA30MParams.srZoneTolerance
    /\ price <= st.fibLevels[1].fib667 + PA30MParams.srZoneTolerance
    /\ GetWickSize(prevCandle, "up") >= PA30MParams.minWickPips

\* checkEntryConditions, "Check at resistance zone"
AtResistance(st, price, prevCandle) ==
    LET nearestResistance == FindNearestZone(price, ZonesOfType(st, "resistance"), "above")
    IN  /\ nearestResistance # <<>>
        /\ price <= nearestResistance[1].high
        /\ 1000 * price >= 999 * nearestResistance[1].low
        /\ GetWickSize(prevCandle, "up") >= PA30MParams.minWickPips

\* The branch of checkEntryConditions that sets direction: the tests are made
\* in program order and each later one only while direction is still null.
EntryReason(st, price, prevCandle) ==
    IF WickRejectsLower(prevCandle) THEN "Strong lower wick rejection"
    ELSE IF AtConfirmedSupport(st, price, prevCandle) THEN "Confirmed support zone"
    ELSE IF WickRejectsUpper(prevCandle) THEN "Strong upper wick rejection"
    ELSE IF AtFib667(st, price, prevCandle) THEN "Counter-trend short at Fib 66.7%"
    ELSE IF AtResistance(st, price, prevCandle) THEN "Resistance zone rejection"
    ELSE "none"

\* The take profit of checkEntryConditions for an entry found.
EntryTakeProfit(st, direction, price, stopLoss, isCounterTrend) ==
    LET byRatio == Abs(price - stopLoss) * PA30MParams.slTpRatio
        tpZone == IF direction = "long"
                  THEN FindNearestZone(price, ZonesOfType(st, "resistance"), "above")
                  ELSE FindNearestZone(price, ZonesOfType(st, "support"), "below")
    IN  IF isCounterTrend
        THEN IF direction = "long"
             THEN price + Min2(byRatio, PA30MParams.maxCounterTrendPips)
             ELSE price - Min2(byRatio, PA30MParams.maxCounterTrendPips)
        ELSE IF PA30MParams.useZoneTP /\ tpZone # <<>> THEN tpZone[1].price
        ELSE IF direction = "long" THEN price + byRatio ELSE price - byRatio

\* The object checkEntryConditions returns for the branch taken; <<>> is null.
EntryFor(st, price, prevCandle, reason) ==
    IF reason = "none" THEN <<>>
    ELSE IF reason \in {"Strong lower wick rejection", "Confirmed support zone"}
    THEN << [direction |-> "long", stopLoss |-> prevCandle.low,
             takeProfit |-> EntryTakeProfit(st, "long", price, prevCandle.low, FALSE),
             reason |-> reason, isCounterTrend |-> FALSE] >>
    ELSE << [direction |-> "short", stopLoss |-> prevCandle.high,
             takeProfit |-> EntryTakeProfit(st, "short", price, prevCandle.high,
                               reason = "Counter-trend short at Fib 66.7%"
                                   \/ st.currentTrend = "up"),
             reason |-> reason,
             isCounterTrend |-> reason = "Counter-trend short at Fib 66.7%"
                                    \/ st.currentTrend = "up"] >>

\* checkEntryConditions(index30M): candle is the aggregated candle of period
\* index30M, price its close, prevCandle the aggregated candle before it.
CheckEntryConditions(st, index30M) ==
    IF index30M < 2 \/ index30M >= Len(st.candles30M) THEN <<>>
    ELSE EntryFor(st, st.candles30M[index30M + 1].close, st.candles30M[index30M],
                  EntryReason(st, st.candles30M[index30M + 1].close,
                              st.candles30M[index30M]))

\* The "index % 100 === 0" refresh of onCandle: S/R zones from the aggregated
\* candles up to index30M, and detectTrend / updateFibonacci again.
RefreshZones(st, idx, index30M) ==
    IF idx % 100 = 0
    THEN [st EXCEPT !.srZones = DetectSRZones(SubSeq(st.candles30M, 1, index30M + 1)),
                    !.currentTrend = "neutral"]
    ELSE st

\* onCandle with a pending entry: confirm it, cancel it or wait.
ConfirmPending(st, candle) ==
    LET entry == st.pendingEntry[1]
        elapsed == candle.timestamp - entry.confirmationTime
        waitMs == PA30MParams.entryWaitMinutes * 60 * 1000
    IN  IF /\ elapsed >= waitMs
           /\ \/ entry.direction = "long" /\ candle.close > candle.open
              \/ entry.direction = "short" /\ candle.close < candle.open
        THEN [signal |-> << [type |-> IF entry.direction = "long" THEN "buy" ELSE "sell",
                             stopLoss |-> entry.stopLoss,
                             takeProfit |-> entry.takeProfit,
                             reason |-> entry.reason] >>,
              st |-> [st EXCEPT !.pendingEntry = <<>>]]
        ELSE IF elapsed >= waitMs /\ elapsed > waitMs * 2
        THEN [signal |-> <<>>, st |-> [st EXCEPT !.pendingEntry = <<>>]]
        ELSE [signal |-> <<>>, st |-> st]

\* onCandle: "Set pending entry for confirmation" when an entry is found and
\* no position is open.
SetPending(st, entry, candle, pos) ==
    IF entry # <<>> /\ pos = <<>>
    THEN [st EXCEPT !.pendingEntry =
             << [direction |-> entry[1].direction,
                 stopLoss |-> entry[1].stopLoss,
                 takeProfit |-> entry[1].takeProfit,
                 reason |-> entry[1].reason,
                 isCounterTrend |-> entry[1].isCounterTrend,
                 confirmationTime |-> candle.timestamp,
                 entryPrice |-> candle.close] >>]
    ELSE st

\* onCandle: "Check for auto-breakeven on existing position"; 0 is an absent
\* takeProfit.
AutoBreakeven(candle, pos) ==
    IF /\ pos # <<>>
       /\ PA30MParams.autoBreakevenPips > 0
       /\ (IF pos[1].direction = "long"
           THEN candle.close - pos[1].entryPrice
           ELSE pos[1].entryPrice - candle.close) >= PA30MParams.autoBreakevenPips
       /\ pos[1].stopLoss # pos[1].entryPrice
    THEN << [type |-> IF pos[1].direction = "long" THEN "buy" ELSE "sell",
             stopLoss |-> pos[1].entryPrice,
             takeProfit |-> 0,
             reason |-> "Auto-breakeven triggered"] >>
    ELSE <<>>

\* onCandle on the first minute of a period, with no pending entry.
OnNewPeriod(st, candle, idx, index30M, pos) ==
    [signal |-> AutoBreakeven(candle, pos),
     st |-> SetPending(RefreshZones(st, idx, index30M),
                       CheckEntryConditions(RefreshZones(st, idx, index30M), index30M),
                       candle, pos)]

\* onCandle(index, _history, position): the signal returned (<<>> is null)
\* and the strategy's fields after the call.
PA30MOnCandle(st, cs, idx, pos) ==
    IF IsUSAOpenTime(cs[idx + 1].timestamp) THEN [signal |-> <<>>, st |-> st]
    ELSE IF Get30MIndex(st, cs, idx) < 0 THEN [signal |-> <<>>, st |-> st]
    ELSE IF st.pendingEntry # <<>> THEN ConfirmPending(st, cs[idx + 1])
    ELSE IF ~(cs[idx + 1].timestamp % (PA30MParams.timeframeMinutes * 60 * 1000) < 60000)
    THEN [signal |-> <<>>, st |-> st]
    ELSE OnNewPeriod(st, cs[idx + 1], idx, Get30MIndex(st, cs, idx), pos)

----------------------------------------------------------------------------
(* Two runs of the strategy side by side, on two candle series, with the   *)
(* same position argument at every index.                                  *)

MaxTail == 3

\* One-minute candle k (0-based) of a series, starting at a period boundary.
MinuteCandle(shape, k) ==
    [timestamp |-> 60000 * k, open |-> shape.open, high |-> shape.high,
     low |-> shape.low, close |-> shape.close]

\* The first two periods: a quiet period, then one whose aggregated candle is
\* bullish with a long lower wick, or bearish with a long upper wick.
StrategyPrefixes ==
    LET quiet == [open |-> 10, high |-> 10, low |-> 10, close |-> 10]
        dip == [open |-> 10, high |-> 10, low |-> 6, close |-> 10]
        spike == [open |-> 10, high |-> 14, low |-> 10, close |-> 10]
        up == [open |-> 10, high |-> 11, low |-> 10, close |-> 11]
        down == [open |-> 10, high |-> 10, low |-> 9, close |-> 9]
    IN  { << quiet, quiet, quiet, dip, quiet, up >>,
          << quiet, quiet, quiet, spike, quiet, down >> }

\* The candles of the third period: green, red or flat.
TailShapes ==
    { [open |-> 10, high |-> 13, low |-> 10, close |-> 13],
      [open |-> 10, high |-> 10, low |-> 8, close |-> 8],
      [open |-> 10, high |-> 10, low |-> 10, close |-> 10] }

StrategySeries ==
    UNION { { [k \in 1..(6 + n) |-> MinuteCandle(IF k <= 6 THEN pre[k] ELSE t[k - 6], k - 1)]
              : pre \in StrategyPrefixes, t \in [1..n -> TailShapes] }
            : n \in 1..MaxTail }

\* The position the engine may hand to onCandle: none, or an open one.
StrategyPositions ==
    { <<>>,
      << [direction |-> "long", entryPrice |-> 10, stopLoss |-> 6, takeProfit |-> 0] >>,
      << [direction |-> "short", entryPrice |-> 10, stopLoss |-> 14, takeProfit |-> 0] >> }

\* The engine stands idle, as constructed with the first config.
EngineParked ==
    EngineInit(CHOOSE cfg \in Configs : cfg.commission = RInt(0) /\ cfg.slippage = 0)

\* strategy.init(candles, config) on both series.
InitStrategy ==
    /\ EngineParked
    /\ GridIdle
    /\ ToolsIdle
    /\ candlesA \in StrategySeries
    /\ candlesB \in StrategySeries
    /\ strategyA = OnInit(candlesA)
    /\ strategyB = OnInit(candlesB)
    /\ nextIndex = 0
    /\ signalsA = <<>>
    /\ signalsB = <<>>

\* strategy.onCandle(index, history, position) in both runs.
StrategyOnCandle(pos) ==
    /\ nextIndex < Len(candlesA)
    /\ nextIndex < Len(candlesB)
    /\ LET a == PA30MOnCandle(strategyA, candlesA, nextIndex, pos)
           b == PA30MOnCandle(strategyB, candlesB, nextIndex, pos)
       IN  /\ signalsA' = Append(signalsA, a.signal)
           /\ signalsB' = Append(signalsB, b.signal)
           /\ strategyA' = a.st
           /\ strategyB' = b.st
    /\ nextIndex' = nextIndex + 1
    /\ UNCHANGED <<engineVars, gridVars, toolVars, candlesA, candlesB>>

NextStrategy == \E pos \in StrategyPositions : StrategyOnCandle(pos)

SpecStrategy == InitStrategy /\ [][NextStrategy]_vars

\* C7 (as claimed): the signal onCandle returns at an index depends only on
\* the candles up to that index: when the two series agree on candles
\* 0..k-1, the calls at index k-1 return the same signal.
C7_SignalDependsOnlyOnPast ==
    \A k \in 1..Len(signalsA) :
        SubSeq(candlesA, 1, k) = SubSeq(candlesB, 1, k) => signalsA[k] = signalsB[k]

----------------------------------------------------------------------------
(* GridSearchOptimizer (src/lib/optimizer/grid-search.ts).  Parameter      *)
(* values are in units of 0.0001.                                          *)

MaxCombinations == 4

\* JavaScript numbers a metric can be: finite ones, the infinities and NaN.
Num(v) == [kind |-> "num", v |-> v]

PosInfinity == [kind |-> "+inf", v |-> 0]

NegInfinity == [kind |-> "-inf", v |-> 0]

NaN == [kind |-> "nan", v |-> 0]

MetricValues == { Num(1), Num(2), PosInfinity, NegInfinity, NaN }

\* isFinite(x)
IsFinite(x) == x.kind = "num"

\* x > y on numbers
Greater(x, y) ==
    CASE x.kind = "nan" \/ y.kind = "nan" -> FALSE
      [] x.kind = "+inf" -> y.kind # "+inf"
      [] x.kind = "-inf" -> FALSE
      [] OTHER -> y.kind = "-inf" \/ (y.kind = "num" /\ x.v > y.v)

\* Mutant: ties replace the best so far.
IsBetterOrEqual(maximize, metricValue, best) ==
    IF maximize THEN Greater(metricValue, best) \/ metricValue = best
                ELSE Greater(best, metricValue) \/ metricValue = best

\* isBetter of optimize
IsBetter(maximize, metricValue, best) ==
    IF maximize THEN Greater(metricValue, best) ELSE Greater(best, metricValue)

\* Math.round(value * 1000) / 1000 on a value in units of 0.0001
Round3(value) == ((value + 5) \div 10) * 10

\* The values the for loop of generateRecursive hands on for one range, from
\* value on: value <= range.max; value += range.step.
RECURSIVE RangeValuesFrom(_, _)
RangeValuesFrom(range, value) ==
    IF value <= range.max
    THEN << Round3(value) >> \o RangeValuesFrom(range, value + range.step)
    ELSE <<>>

\* generateRecursive(index, current): the combinations pushed, in order.
RECURSIVE GenerateRecursive(_, _, _, _)
GenerateRecursive(paramRanges, baseParams, idx, current) ==
    IF idx = Len(paramRanges)
    THEN << current >>
    ELSE LET range == paramRanges[idx + 1]
             values == RangeValuesFrom(range, range.min)
             F[k \in 0..Len(values)] ==
                 IF k = 0 THEN <<>>
                 ELSE F[k - 1] \o GenerateRecursive(paramRanges, baseParams, idx + 1,
                                      [current EXCEPT ![range.key] = values[k]])
         IN  F[Len(values)]

\* generateCombinations(baseParams)
GenerateCombinations(paramRanges, baseParams) ==
    GenerateRecursive(paramRanges, baseParams, 0, baseParams)

\* getTotalCombinations()
RECURSIVE GetTotalCombinationsOf(_)
GetTotalCombinationsOf(paramRanges) ==
    IF paramRanges = <<>> THEN 1
    ELSE (((Head(paramRanges).max - Head(paramRanges).min) \div Head(paramRanges).step) + 1)
             * GetTotalCombinationsOf(Tail(paramRanges))

\* The baseParams handed to optimize.
BaseParams == [p1 |-> 50, p2 |-> 50]

\* Ranges with min <= max and step > 0: from 0 or 0.001 to 0.001 or 0.002 in
\* steps of 0.0004 or 0.001.
GridRanges ==
    { [min |-> a, max |-> b, step |-> s] : a \in {0, 10}, b \in {10, 20}, s \in {4, 10} }

WithKey(range, key) ==
    [key |-> key, min |-> range.min, max |-> range.max, step |-> range.step]

\* paramRanges objects over the keys p1 and p2, in key order.
ParamRanges ==
    { pr \in {<<>>} \cup { << WithKey(r, "p1") >> : r \in GridRanges }
                   \cup { << WithKey(r, "p1"), WithKey(q, "p2") >>
                          : r \in GridRanges, q \in GridRanges }
      : GetTotalCombinationsOf(pr) <= MaxCombinations }

OptimizationConfigs ==
    { [paramRanges |-> pr, maximize |-> m] : pr \in ParamRanges, m \in BOOLEAN }

\* The comparator of results.sort is consistent when no difference of two
\* metric values is NaN.
ComparatorConsistent(rs) ==
    /\ \A k \in 1..Len(rs) : rs[k].metricValue.kind # "nan"
    /\ Cardinality({ k \in 1..Len(rs) : rs[k].metricValue.kind = "+inf" }) <= 1
    /\ Cardinality({ k \in 1..Len(rs) : rs[k].metricValue.kind = "-inf" }) <= 1

\* a sorts strictly before b
SortsBefore(maximize, a, b) ==
    IF maximize THEN Greater(a.metricValue, b.metricValue)
                ELSE Greater(b.metricValue, a.metricValue)

\* What results.sort may leave: the stable sort when the comparator is
\* consistent, any order otherwise (the order is implementation-defined).
SortOutcomes(rs, maximize) ==
    { [k \in 1..Len(rs) |-> rs[p[k]]] :
        p \in { q \in Permutations(1..Len(rs)) :
                  ComparatorConsistent(rs) =>
                      \A j, k \in 1..Len(rs) :
                          j < k => \/ SortsBefore(maximize, rs[q[j]], rs[q[k]])
                                   \/ /\ ~SortsBefore(maximize, rs[q[k]], rs[q[j]])
                                      /\ q[j] < q[k] } }

\* new GridSearchOptimizer(candles, backtestConfig, optimizationConfig)
InitGrid ==
    /\ EngineParked
    /\ StrategyIdle
    /\ ToolsIdle
    /\ optimizationConfig \in OptimizationConfigs
    /\ combinations = <<>>
    /\ i = 0
    /\ allResults = <<>>
    /\ bestParams = <<>>
    /\ bestMetricValue = <<>>
    /\ totalCombinations = 0
    /\ evaluated = <<>>
    /\ progressCalls = <<>>
    /\ gpc = "new"

\* optimize(strategyFactory, baseParams) up to the loop.
Optimize ==
    /\ gpc = "new"
    /\ combinations' = GenerateCombinations(optimizationConfig.paramRanges, BaseParams)
    /\ allResults' = <<>>
    /\ bestParams' = BaseParams
    /\ bestMetricValue' = IF optimizationConfig.maximize THEN NegInfinity ELSE PosInfinity
    /\ i' = 0
    /\ gpc' = "loop"
    /\ UNCHANGED <<engineVars, strategyVars, toolVars, optimizationConfig, totalCombinations,
                   evaluated, progressCalls>>

\* One iteration whose engine.run returns a result with this metric value;
\* an onProgress callback was given to the constructor.
EvaluateReturns(metricValue) ==
    /\ gpc = "loop"
    /\ i < Len(combinations)
    /\ LET params == combinations[i + 1]
           better == /\ IsBetter(optimizationConfig.maximize, metricValue, bestMetricValue)
                     /\ IsFinite(metricValue)
       IN  /\ allResults' = Append(allResults,
                                   [params |-> params, metricValue |-> metricValue])
           /\ bestMetricValue' = IF better THEN metricValue ELSE bestMetricValue
           /\ bestParams' = IF better THEN params ELSE bestParams
           /\ evaluated' = Append(evaluated, [params |-> params, ok |-> TRUE,
                                              metricValue |-> metricValue])
           /\ progressCalls' = Append(progressCalls,
                                      [progress |-> Rat(i + 1, Len(combinations)),
                                       current |-> params])
    /\ i' = i + 1
    /\ UNCHANGED <<engineVars, strategyVars, toolVars, optimizationConfig, combinations,
                   totalCombinations, gpc>>

\* One iteration whose engine.run throws: caught, nothing recorded.
EvaluateThrows ==
    /\ gpc = "loop"
    /\ i < Len(combinations)
    /\ evaluated' = Append(evaluated, [params |-> combinations[i + 1], ok |-> FALSE,
                                       metricValue |-> NaN])
    /\ i' = i + 1
    /\ UNCHANGED <<engineVars, strategyVars, toolVars, optimizationConfig, combinations,
                   allResults, bestParams, bestMetricValue, totalCombinations,
                   progressCalls, gpc>>

\* strategyFactory(params) throws: it is called outside the try block, so the
\* exception leaves optimize.
FactoryThrows ==
    /\ gpc = "loop"
    /\ i < Len(combinations)
    /\ gpc' = "thrown"
    /\ UNCHANGED <<engineVars, strategyVars, toolVars, optimizationConfig, combinations, i,
                   allResults, bestParams, bestMetricValue, totalCombinations,
                   evaluated, progressCalls>>

\* After the loop: sort the results and return.
ReturnResult ==
    /\ gpc = "loop"
    /\ i >= Len(combinations)
    /\ allResults' \in SortOutcomes(allResults, optimizationConfig.maximize)
    /\ totalCombinations' = Len(combinations)
    /\ gpc' = "done"
    /\ UNCHANGED <<engineVars, strategyVars, toolVars, optimizationConfig, combinations, i,
                   bestParams, bestMetricValue, evaluated, progressCalls>>

NextGrid ==
    \/ Optimize
    \/ \E metricValue \in MetricValues : EvaluateReturns(metricValue)
    \/ EvaluateThrows
    \/ FactoryThrows
    \/ ReturnResult

SpecGrid == InitGrid /\ [][NextGrid]_vars

\* The values min, min + step, ... up to max of a range.
RangeElements(range) ==
    { range.min + n * range.step : n \in 0..((range.max - range.min) \div range.step) }

\* The Cartesian product of the ranges, laid over baseParams.
RECURSIVE CartesianProduct(_, _)
CartesianProduct(paramRanges, current) ==
    IF paramRanges = <<>> THEN { current }
    ELSE UNION { CartesianProduct(Tail(paramRanges),
                                  [current EXCEPT ![Head(paramRanges).key] = v])
                 : v \in RangeElements(Head(paramRanges)) }

\* C9 (as claimed): a returned optimize has handled exactly the product of
\* floor((max - min) / step) + 1 combinations, which is getTotalCombinations()
\* and totalCombinations, one for each element of the Cartesian product of the
\* ranges, none twice; with no ranges, baseParams alone.
C9_EvaluatesEachCombinationOnce ==
    gpc = "done" =>
        /\ Len(evaluated) = GetTotalCombinationsOf(optimizationConfig.paramRanges)
        /\ Len(evaluated) = totalCombinations
        /\ \A j, k \in 1..Len(evaluated) :
              j # k => evaluated[j].params # evaluated[k].params
        /\ { evaluated[k].params : k \in 1..Len(evaluated) }
              = CartesianProduct(optimizationConfig.paramRanges, BaseParams)
        /\ optimizationConfig.paramRanges = <<>> =>
              evaluated \in { << [params |-> BaseParams, ok |-> o, metricValue |-> mv] >>
                              : o \in BOOLEAN, mv \in MetricValues }

\* The successful evaluations so far, in the order they were made.
Succeeded == SelectSeq(evaluated, LAMBDA e : e.ok)

\* Those of them with a finite metric value.
FiniteAt == { k \in 1..Len(Succeeded) : IsFinite(Succeeded[k].metricValue) }

\* k attains the best finite value and no earlier evaluation does.
FirstBest(k) ==
    /\ k \in FiniteAt
    /\ \A l \in FiniteAt :
          IF optimizationConfig.maximize
          THEN Succeeded[l].metricValue.v <= Succeeded[k].metricValue.v
          ELSE Succeeded[l].metricValue.v >= Succeeded[k].metricValue.v
    /\ \A l \in FiniteAt :
          l < k => Succeeded[l].metricValue.v # Succeeded[k].metricValue.v

\* C10: while optimize runs and when it has returned, bestMetricValue is the
\* largest (maximize) or smallest finite metric value of the successful
\* evaluations and bestParams the first combination attaining it; with no
\* finite value bestParams is baseParams; and the returned allResults holds
\* every successful evaluation, the infinite ones included.
C10_BestIsFirstFiniteOptimum ==
    gpc \in {"loop", "done"} =>
        /\ FiniteAt = {} =>
              /\ bestParams = BaseParams
              /\ bestMetricValue = IF optimizationConfig.maximize
                                   THEN NegInfinity ELSE PosInfinity
        /\ FiniteAt # {} =>
              \E k \in FiniteAt :
                  /\ FirstBest(k)
                  /\ bestMetricValue = Succeeded[k].metricValue
                  /\ bestParams = Succeeded[k].params
        /\ gpc = "done" =>
              /\ Len(allResults) = Len(Succeeded)
              /\ \E p \in Permutations(1..Len(Succeeded)) :
                    \A k \in 1..Len(Succeeded) :
                        allResults[k] = [params |-> Succeeded[p[k]].params,
                                         metricValue |-> Succeeded[p[k]].metricValue]

\* A maximising search has returned after an infinite value, and then the
\* same finite value for two different combinations, the first of which is
\* the best.
C10_Witness ==
    /\ gpc = "done"
    /\ optimizationConfig.maximize
    /\ Len(Succeeded) >= 3
    /\ Succeeded[1].metricValue = PosInfinity
    /\ Succeeded[2].metricValue = Num(2)
    /\ Succeeded[3].metricValue = Num(2)
    /\ Succeeded[2].params # Succeeded[3].params
    /\ bestParams = Succeeded[2].params
    /\ bestMetricValue = Num(2)
    /\ \E k \in 1..Len(allResults) : allResults[k].metricValue = PosInfinity

\* C11 (as claimed): an exception raised while one combination is evaluated,
\* by the strategy factory included, never ends the search: optimize does not
\* throw, and when it returns it has handled every combination and left the
\* failing ones out of allResults.
C11_FailureDoesNotAbortSearch ==
    /\ gpc # "thrown"
    /\ gpc = "done" =>
          /\ Len(evaluated) = Len(combinations)
          /\ Len(allResults) = Len(SelectSeq(evaluated, LAMBDA e : e.ok))

\* --------------------------------------------------------------------------
\* GeneticOptimizer (src/unnamed/part_008, from line 162)
\* --------------------------------------------------------------------------

MaxPopulation == 2

MaxGenerations == 3

\* The parameter range the optimizer searches: p1 from 1 to 2 in steps of 1.
GeneticRange == [min |-> 1, max |-> 2, step |-> 1]

\* The baseParams handed to optimize.
GeneticBaseParams == [p1 |-> 1]

\* geneticConfig and optimizationConfig.maximize, with the population at
\* least one individual and no more elites than individuals.
GeneticConfigs ==
    { c \in [populationSize : 1..MaxPopulation, generations : 0..MaxGenerations,
              eliteCount : 0..MaxPopulation, earlyStopGenerations : 1..2,
              maximize : BOOLEAN] :
        c.eliteCount <= c.populationSize }

\* The metric values an evaluation may yield.
GeneticMetricValues == { Num(0), Num(1), PosInfinity, NaN }

\* What strategyFactory(params) and engine.run(candles, strategy) do for each
\* params: the run is a function of the candles, the configuration and the
\* new strategy, so every evaluation of the same params ends the same way,
\* with a metric value or with an exception.
EvaluationOutcomes ==
    [ { GeneticRange.min + k * GeneticRange.step :
          k \in 0..((GeneticRange.max - GeneticRange.min) \div GeneticRange.step) }
      -> GeneticMetricValues \cup { [kind |-> "throws"] } ]

\* -x on numbers
Negate(x) ==
    CASE x.kind = "num" -> Num(0 - x.v)
      [] x.kind = "+inf" -> NegInfinity
      [] x.kind = "-inf" -> PosInfinity
      [] OTHER -> NaN

\* { params, fitness: 0 }: an individual not yet evaluated.  The field threw
\* records whether its evaluation ended in the catch block.
NewIndividual(params) ==
    [params |-> params, fitness |-> Num(0), metrics |-> FALSE, threw |-> FALSE]

\* Mutant: a failed evaluation keeps fitness 0.
ThrownIndividualKeepsZero(params) ==
    [params |-> params, fitness |-> Num(0), metrics |-> FALSE, threw |-> TRUE]

\* catch { return { params: individual.params, fitness: -Infinity } }
ThrownIndividual(params) ==
    [params |-> params, fitness |-> NegInfinity, metrics |-> FALSE, threw |-> TRUE]

\* The individual the try block returns for this metric value.
EvaluatedIndividual(params, maximize, metricValue) ==
    LET fitness == IF maximize THEN metricValue ELSE Negate(metricValue)
    IN  [params |-> params,
         fitness |-> IF IsFinite(fitness) THEN fitness ELSE NegInfinity,
         metrics |-> TRUE, threw |-> FALSE]

\* individual.fitness !== 0 && individual.metrics
AlreadyEvaluated(ind) == ind.fitness # Num(0) /\ ind.metrics

\* The values randomizeParams and mutate draw from.
RandomValues ==
    { GeneticRange.min + randomStep * GeneticRange.step :
        randomStep \in 0..((GeneticRange.max - GeneticRange.min) \div GeneticRange.step) }

\* initializePopulation(baseParams): the outcomes of the random draws.
InitializePopulation(populationSize) ==
    { << NewIndividual(GeneticBaseParams) >> \o rest :
        rest \in [1..(populationSize - 1) -> { NewIndividual([p1 |-> v]) : v \in RandomValues }] }

\* getBest(population): reduce without a start value, a later individual
\* replaces the best only with a strictly greater fitness.
RECURSIVE GetBestFrom(_, _)
GetBestFrom(pop, best) ==
    IF pop = <<>> THEN best
    ELSE GetBestFrom(Tail(pop), IF Greater(Head(pop).fitness, best.fitness)
                                THEN Head(pop) ELSE best)

GetBest(pop) == GetBestFrom(Tail(pop), Head(pop))

\* [...population].sort((a, b) => b.fitness - a.fitness): fitnesses are
\* finite or -Infinity, the comparator yields NaN only for two -Infinity and
\* NaN counts as 0, so this is the stable sort by descending fitness.
SortByFitness(pop) ==
    LET q == CHOOSE p \in Permutations(1..Len(pop)) :
                 \A j, k \in 1..Len(pop) :
                     j < k => \/ Greater(pop[p[j]].fitness, pop[p[k]].fitness)
                              \/ /\ pop[p[j]].fitness = pop[p[k]].fitness
                                 /\ p[j] < p[k]
    IN  [k \in 1..Len(pop) |-> pop[q[k]]]

\* The offspring one turn of the while loop can push: tournamentSelection
\* can return any individual of the population, crossover takes p1 of either
\* parent, mutate draws p1 anew.
Offspring(pop) ==
    { NewIndividual([p1 |-> v]) :
        v \in { pop[k].params.p1 : k \in 1..Len(pop) } \cup RandomValues }

\* Mutant: the elites are taken from the unsorted population.
NewPopulationsUnsorted(pop, cfg) ==
    { SubSeq(pop, 1, cfg.eliteCount) \o rest :
        rest \in [1..(cfg.populationSize - cfg.eliteCount) -> Offspring(pop)] }

\* The new populations of one generation: the elites, then offspring.
NewPopulations(pop, cfg) ==
    LET sorted == SortByFitness(pop)
        elites == SubSeq(sorted, 1, cfg.eliteCount)
    IN  { elites \o rest :
            rest \in [1..(cfg.populationSize - cfg.eliteCount) -> Offspring(pop)] }

\* allResults after a successful evaluation: pushed unless the params are
\* already there.
StoreResult(rs, params, metricValue) ==
    IF \E k \in 1..Len(rs) : rs[k].params = params THEN rs
    ELSE Append(rs, [params |-> params, metricValue |-> metricValue])

geneticOthers == <<engineVars, strategyVars, gridVars, walkForward, monteCarlo, metricsCall, indicatorCall, paper, enumeration>>

\* new GeneticOptimizer(candles, backtestConfig, optimizationConfig, geneticConfig)
InitGenetic ==
    /\ EngineParked
    /\ StrategyIdle
    /\ GridIdle
    /\ IdleBut("genetic")
    /\ \E cfg \in GeneticConfigs, outcomes \in EvaluationOutcomes :
          genetic = [pc |-> "new", geneticConfig |-> cfg, outcomes |-> outcomes,
                     population |-> <<>>, previous |-> <<>>, bestHistory |-> <<>>,
                     next |-> 0, mapped |-> <<>>, bestOverall |-> <<>>, gen |-> 0,
                     generationsWithoutImprovement |-> 0, allResults |-> <<>>,
                     initial |-> TRUE, everFinite |-> FALSE, everThrew |-> FALSE,
                     returned |-> <<>>]

\* optimize(strategyFactory, baseParams) up to the first evaluatePopulation.
GeneticOptimize ==
    /\ genetic.pc = "new"
    /\ \E pop \in InitializePopulation(genetic.geneticConfig.populationSize) :
          genetic' = [genetic EXCEPT !.pc = "evaluate", !.population = pop,
                                     !.next = 0, !.mapped = <<>>]
    /\ UNCHANGED geneticOthers

\* evaluatePopulation, one individual: an elite evaluated before is returned
\* as it is.
KeepEvaluated ==
    /\ genetic.pc = "evaluate"
    /\ genetic.next < Len(genetic.population)
    /\ AlreadyEvaluated(genetic.population[genetic.next + 1])
    /\ genetic' = [genetic EXCEPT
                      !.mapped = Append(@, genetic.population[genetic.next + 1]),
                      !.next = @ + 1]
    /\ UNCHANGED geneticOthers

\* evaluatePopulation, one individual: factory and engine.run return, the
\* result holds this metric value.
IndividualReturns(metricValue) ==
    /\ genetic.pc = "evaluate"
    /\ genetic.next < Len(genetic.population)
    /\ ~AlreadyEvaluated(genetic.population[genetic.next + 1])
    /\ genetic.outcomes[genetic.population[genetic.next + 1].params.p1] = metricValue
    /\ LET params == genetic.population[genetic.next + 1].params
           ind == EvaluatedIndividual(params, genetic.geneticConfig.maximize, metricValue)
       IN  genetic' = [genetic EXCEPT
                          !.mapped = Append(@, ind),
                          !.allResults = StoreResult(@, params, metricValue),
                          !.everFinite = @ \/ IsFinite(ind.fitness),
                          !.next = @ + 1]
    /\ UNCHANGED geneticOthers

\* evaluatePopulation, one individual: strategyFactory, or engine.run and
\* through it the strategy, throws inside the try block.
IndividualThrows(thrower) ==
    /\ genetic.pc = "evaluate"
    /\ genetic.next < Len(genetic.population)
    /\ ~AlreadyEvaluated(genetic.population[genetic.next + 1])
    /\ thrower \in {"factory", "run"}
    /\ genetic.outcomes[genetic.population[genetic.next + 1].params.p1].kind = "throws"
    /\ genetic' = [genetic EXCEPT
                      !.mapped = Append(@, ThrownIndividual(
                                     genetic.population[genetic.next + 1].params)),
                      !.everThrew = TRUE,
                      !.next = @ + 1]
    /\ UNCHANGED geneticOthers

\* The first evaluatePopulation has returned: bestOverall = getBest(population).
FirstPopulationEvaluated ==
    /\ genetic.pc = "evaluate"
    /\ genetic.next = Len(genetic.population)
    /\ genetic.initial
    /\ genetic' = [genetic EXCEPT !.pc = "loop", !.population = genetic.mapped,
                                  !.mapped = <<>>, !.initial = FALSE,
                                  !.bestOverall = GetBest(genetic.mapped),
                                  !.bestHistory = << GetBest(genetic.mapped).fitness >>,
                                  !.generationsWithoutImprovement = 0,
                                  !.gen = 0]
    /\ UNCHANGED geneticOthers

\* Mutant: an improvement does not reset the count.
WithoutImprovementNeverReset(improved, count) == count + 1

\* generationsWithoutImprovement after a generation
WithoutImprovement(improved, count) == IF improved THEN 0 ELSE count + 1

\* evaluatePopulation of a generation has returned: track the best, stop
\* early or go on with gen++.  bestHistory keeps bestOverall.fitness as it
\* stood after the first evaluation and after each generation.
GenerationEvaluated ==
    /\ genetic.pc = "evaluate"
    /\ genetic.next = Len(genetic.population)
    /\ ~genetic.initial
    /\ LET currentBest == GetBest(genetic.mapped)
           improved == Greater(currentBest.fitness, genetic.bestOverall.fitness)
           without == WithoutImprovement(improved, genetic.generationsWithoutImprovement)
           stop == without >= genetic.geneticConfig.earlyStopGenerations
       IN  genetic' = [genetic EXCEPT
                          !.pc = IF stop THEN "break" ELSE "loop",
                          !.population = genetic.mapped,
                          !.mapped = <<>>,
                          !.bestOverall = IF improved THEN currentBest ELSE @,
                          !.bestHistory = Append(@, IF improved THEN currentBest.fitness
                                                    ELSE genetic.bestOverall.fitness),
                          !.generationsWithoutImprovement = without,
                          !.gen = IF stop THEN @ ELSE @ + 1]
    /\ UNCHANGED geneticOthers

\* One turn of the evolution loop up to evaluatePopulation(newPopulation);
\* previous keeps the population the turn started with.
Reproduce ==
    /\ genetic.pc = "loop"
    /\ genetic.gen < genetic.geneticConfig.generations
    /\ \E pop \in NewPopulations(genetic.population, genetic.geneticConfig) :
          genetic' = [genetic EXCEPT !.pc = "evaluate", !.population = pop,
                                     !.previous = genetic.population,
                                     !.next = 0, !.mapped = <<>>]
    /\ UNCHANGED geneticOthers

\* After the loop: sort allResults and return.
GeneticReturn ==
    /\ \/ genetic.pc = "break"
       \/ genetic.pc = "loop" /\ genetic.gen >= genetic.geneticConfig.generations
    /\ \E sorted \in SortOutcomes(genetic.allResults, genetic.geneticConfig.maximize) :
          genetic' = [genetic EXCEPT
                         !.pc = "done", !.allResults = sorted,
                         !.returned = [bestParams |-> genetic.bestOverall.params,
                                       bestMetricValue |-> genetic.bestOverall.fitness,
                                       allResults |-> sorted,
                                       totalCombinations |-> Len(sorted)]]
    /\ UNCHANGED geneticOthers

NextGenetic ==
    \/ GeneticOptimize
    \/ KeepEvaluated
    \/ \E metricValue \in GeneticMetricValues : IndividualReturns(metricValue)
    \/ \E thrower \in {"factory", "run"} : IndividualThrows(thrower)
    \/ FirstPopulationEvaluated
    \/ GenerationEvaluated
    \/ Reproduce
    \/ GeneticReturn

SpecGenetic == InitGenetic /\ [][NextGenetic]_vars

\* The individuals evaluatePopulation has returned or is about to return.
GeneticIndividuals ==
    { genetic.mapped[k] : k \in 1..Len(genetic.mapped) }
        \cup { genetic.population[k] : k \in 1..Len(genetic.population) }
        \cup (IF genetic.bestOverall = <<>> THEN {} ELSE { genetic.bestOverall })

\* C12: an individual whose evaluation threw has fitness -Infinity; after
\* every evaluatePopulation each individual of the population has been
\* evaluated; optimize ends only with all generations done or by early
\* stopping; and once some evaluated individual had a finite fitness, the
\* individual returned as best has a finite fitness and did not throw.
C12_ThrowingIndividualNeverBest ==
    /\ \A ind \in GeneticIndividuals : ind.threw => ind.fitness = NegInfinity
    /\ genetic.pc \in {"loop", "break", "done"} =>
          /\ Len(genetic.population) = genetic.geneticConfig.populationSize
          /\ \A k \in 1..Len(genetic.population) :
                genetic.population[k].threw \/ genetic.population[k].metrics
          /\ genetic.everFinite =>
                IsFinite(genetic.bestOverall.fitness) /\ ~genetic.bestOverall.threw
    /\ genetic.pc = "done" =>
          \/ genetic.gen = genetic.geneticConfig.generations
          \/ genetic.generationsWithoutImprovement
                 >= genetic.geneticConfig.earlyStopGenerations

\* optimize has returned a best individual with finite fitness although the
\* evaluation of the first individual of the last population threw.
C12_Witness ==
    /\ genetic.pc = "done"
    /\ genetic.gen >= 1
    /\ genetic.population[1].threw
    /\ genetic.everFinite
    /\ IsFinite(genetic.bestOverall.fitness)

\* --------------------------------------------------------------------------
\* JavaScript numbers with exact finite values: a fraction, an infinity or NaN
\* --------------------------------------------------------------------------

JsNum(r) == [kind |-> "num", v |-> r]

JsInt(z) == JsNum(RInt(z))

JsPosInfinity == [kind |-> "+inf", v |-> RInt(0)]

JsNegInfinity == [kind |-> "-inf", v |-> RInt(0)]

JsNaN == [kind |-> "nan", v |-> RInt(0)]

JsIsNaN(a) == a.kind = "nan"

\* -1, 0 or 1
JsSign(a) ==
    CASE a.kind = "+inf" -> 1
      [] a.kind = "-inf" -> -1
      [] a.kind = "num" -> IF a.v.n > 0 THEN 1 ELSE IF a.v.n < 0 THEN -1 ELSE 0
      [] OTHER -> 0

JsInfinityOfSign(sign) == IF sign < 0 THEN JsNegInfinity ELSE JsPosInfinity

\* -a
JsNeg(a) ==
    CASE a.kind = "num" -> JsNum(RNeg(a.v))
      [] a.kind = "+inf" -> JsNegInfinity
      [] a.kind = "-inf" -> JsPosInfinity
      [] OTHER -> JsNaN

\* a + b
JsAdd(a, b) ==
    CASE JsIsNaN(a) \/ JsIsNaN(b) -> JsNaN
      [] a.kind = "num" /\ b.kind = "num" -> JsNum(RAdd(a.v, b.v))
      [] a.kind = "num" -> b
      [] b.kind = "num" -> a
      [] OTHER -> IF a.kind = b.kind THEN a ELSE JsNaN

\* a - b
JsSub(a, b) == JsAdd(a, JsNeg(b))

\* a * b
JsMul(a, b) ==
    CASE JsIsNaN(a) \/ JsIsNaN(b) -> JsNaN
      [] a.kind = "num" /\ b.kind = "num" -> JsNum(RMul(a.v, b.v))
      [] JsSign(a) = 0 \/ JsSign(b) = 0 -> JsNaN
      [] OTHER -> JsInfinityOfSign(JsSign(a) * JsSign(b))

\* a / b, the zero divisors being +0
JsDiv(a, b) ==
    CASE JsIsNaN(a) \/ JsIsNaN(b) -> JsNaN
      [] a.kind = "num" /\ b.kind = "num" ->
            IF b.v.n # 0 THEN JsNum(RDiv(a.v, b.v))
            ELSE IF a.v.n = 0 THEN JsNaN ELSE JsInfinityOfSign(JsSign(a))
      [] a.kind = "num" -> JsInt(0)
      [] b.kind = "num" -> JsInfinityOfSign(JsSign(a) * (IF JsSign(b) < 0 THEN -1 ELSE 1))
      [] OTHER -> JsNaN

\* Math.abs(a)
MathAbs(a) ==
    CASE a.kind = "num" -> JsNum([n |-> Abs(a.v.n), d |-> a.v.d])
      [] JsIsNaN(a) -> JsNaN
      [] OTHER -> JsPosInfinity

\* a > b
JsGreater(a, b) ==
    CASE JsIsNaN(a) \/ JsIsNaN(b) -> FALSE
      [] a.kind = "+inf" -> b.kind # "+inf"
      [] a.kind = "-inf" -> FALSE
      [] OTHER -> b.kind = "-inf" \/ (b.kind = "num" /\ RLt(b.v, a.v))

\* Math.max(a, b)
MathMax(a, b) ==
    IF JsIsNaN(a) \/ JsIsNaN(b) THEN JsNaN ELSE IF JsGreater(b, a) THEN b ELSE a

\* Math.min(a, b)
MathMin(a, b) ==
    IF JsIsNaN(a) \/ JsIsNaN(b) THEN JsNaN ELSE IF JsGreater(a, b) THEN b ELSE a

\* reduce((sum, x) => sum + x, 0)
RECURSIVE JsSumFrom(_, _)
JsSumFrom(s, sum) == IF s = <<>> THEN sum ELSE JsSumFrom(Tail(s), JsAdd(sum, Head(s)))

\* --------------------------------------------------------------------------
\* WalkForwardAnalyzer (src/unnamed/part_009)
\* --------------------------------------------------------------------------

MaxTotalCandles == 8

MaxWindows == 3

\* trainRatio in tenths: 0, 0.5, 0.7, 1 and 1.5.
TrainRatios == {0, 5, 7, 10, 15}

\* walkForwardConfig; numWindows up to one more than candles can fill.
WalkForwardConfigs ==
    { [windowType |-> t, trainRatio |-> r, numWindows |-> n] :
        t \in {"rolling", "anchored"}, r \in TrainRatios, n \in 0..MaxWindows }

\* Mutant: the rolling window slides by the training size only.
RollingWindowSlidesByTrainSize(w, windowSize, trainSize, testSize, totalCandles) ==
    LET trainStart == w * trainSize
        trainEnd == trainStart + trainSize - 1
        testStart == trainEnd + 1
        testEnd == Min2(testStart + testSize - 1, totalCandles - 1)
    IN  [skip |-> testEnd <= trainEnd,
         trainIndex |-> [start |-> trainStart, end |-> trainEnd],
         testIndex |-> [start |-> testStart, end |-> testEnd]]

\* One turn of the rolling loop: the window and whether continue skips it.
RollingWindow(w, windowSize, trainSize, testSize, totalCandles) ==
    LET trainStart == w * windowSize
        trainEnd == trainStart + trainSize - 1
        testStart == trainEnd + 1
        testEnd == Min2(testStart + testSize - 1, totalCandles - 1)
    IN  [skip |-> testEnd <= trainEnd,
         trainIndex |-> [start |-> trainStart, end |-> trainEnd],
         testIndex |-> [start |-> testStart, end |-> testEnd]]

\* One turn of the anchored loop.
AnchoredWindow(w, testSize, totalCandles, cfg) ==
    LET trainEnd == ((w + 1) * totalCandles * cfg.trainRatio) \div (10 * cfg.numWindows)
        testStart == trainEnd + 1
        testEnd == Min2(testStart + testSize - 1, totalCandles - 1)
    IN  [skip |-> testEnd <= testStart,
         trainIndex |-> [start |-> 0, end |-> trainEnd],
         testIndex |-> [start |-> testStart, end |-> testEnd]]

\* The window turn w of the loop builds.
WindowAt(w, totalCandles, cfg) ==
    IF cfg.windowType = "rolling"
    THEN LET windowSize == totalCandles \div cfg.numWindows
             trainSize == (windowSize * cfg.trainRatio) \div 10
         IN  RollingWindow(w, windowSize, trainSize, windowSize - trainSize, totalCandles)
    ELSE AnchoredWindow(w, totalCandles \div cfg.numWindows, totalCandles, cfg)

\* this.candles[k].timestamp throws when candles[k] is undefined.
ReadsMissingCandle(win, totalCandles) ==
    \E k \in { win.trainIndex.start, win.trainIndex.end,
               win.testIndex.start, win.testIndex.end } :
        k < 0 \/ k >= totalCandles

\* generateWindows(), turns w and later, after the windows pushed so far:
\* the windows returned, or threw when a pushed window reads a missing candle.
RECURSIVE GenerateWindowsFrom(_, _, _, _)
GenerateWindowsFrom(w, windows, totalCandles, cfg) ==
    IF w >= cfg.numWindows THEN [threw |-> FALSE, windows |-> windows]
    ELSE LET win == WindowAt(w, totalCandles, cfg)
         IN  IF win.skip
             THEN GenerateWindowsFrom(w + 1, windows, totalCandles, cfg)
             ELSE IF ReadsMissingCandle(win, totalCandles)
             THEN [threw |-> TRUE, windows |-> windows]
             ELSE GenerateWindowsFrom(w + 1,
                      Append(windows, [trainIndex |-> win.trainIndex,
                                       testIndex |-> win.testIndex]),
                      totalCandles, cfg)

\* generateWindows()
GenerateWindows(totalCandles, cfg) == GenerateWindowsFrom(0, <<>>, totalCandles, cfg)

\* optimResult.allResults[0]?.metrics?.[metric]: a value, or undefined when
\* the optimizer recorded no result.
InSampleValues == { [kind |-> "undefined", v |-> RInt(0)], JsInt(0), JsInt(1), JsInt(-2),
                    JsPosInfinity }

\* outOfSampleResult.metrics[metric]
OutOfSampleValues == { JsInt(0), JsInt(2), JsPosInfinity, JsNaN }

\* x as number || 0
OrZero(a) ==
    IF a.kind \in {"undefined", "nan"} \/ a = JsInt(0) THEN JsInt(0) ELSE a

\* degradation of one window
Degradation(inSample, outOfSampleValue) ==
    LET inSampleValue == OrZero(inSample)
    IN  IF inSampleValue # JsInt(0)
        THEN JsMul(JsDiv(JsSub(inSampleValue, outOfSampleValue), MathAbs(inSampleValue)),
                   JsInt(100))
        ELSE JsInt(0)

\* results.reduce((sum, r) => sum + r.degradation, 0) / results.length
AverageDegradation(rs) ==
    JsDiv(JsSumFrom([k \in 1..Len(rs) |-> rs[k].degradation], JsInt(0)), JsInt(Len(rs)))

\* Math.max(0, Math.min(100, 100 - averageDegradation))
RobustnessScore(averageDegradation) ==
    MathMax(JsInt(0), MathMin(JsInt(100), JsSub(JsInt(100), averageDegradation)))

walkForwardOthers == <<engineVars, strategyVars, gridVars, genetic, monteCarlo, metricsCall, indicatorCall, paper, enumeration>>

\* new WalkForwardAnalyzer(candles, backtestConfig, walkForwardConfig)
InitWalkForward ==
    /\ EngineParked
    /\ StrategyIdle
    /\ GridIdle
    /\ IdleBut("walkForward")
    /\ \E n \in 0..MaxTotalCandles, cfg \in WalkForwardConfigs :
          walkForward = [pc |-> "new", totalCandles |-> n, walkForwardConfig |-> cfg,
                         windows |-> <<>>, results |-> <<>>,
                         averageDegradation |-> JsInt(0),
                         robustnessScore |-> JsInt(0)]

\* analyze(strategyFactory, baseParams) up to the loop.
Analyze ==
    /\ walkForward.pc = "new"
    /\ LET g == GenerateWindows(walkForward.totalCandles, walkForward.walkForwardConfig)
       IN  walkForward' = [walkForward EXCEPT
                              !.pc = IF g.threw THEN "thrown" ELSE "loop",
                              !.windows = g.windows]
    /\ UNCHANGED walkForwardOthers

\* One window: the optimizer and the out-of-sample run return.
WindowAnalyzed(inSample, outOfSampleValue) ==
    /\ walkForward.pc = "loop"
    /\ Len(walkForward.results) < Len(walkForward.windows)
    /\ walkForward' = [walkForward EXCEPT
                          !.results = Append(@,
                              [window |-> walkForward.windows[Len(@) + 1],
                               degradation |-> Degradation(inSample, outOfSampleValue)])]
    /\ UNCHANGED walkForwardOthers

\* One window: strategyFactory or the out-of-sample engine.run throws.
WindowThrows ==
    /\ walkForward.pc = "loop"
    /\ Len(walkForward.results) < Len(walkForward.windows)
    /\ walkForward' = [walkForward EXCEPT !.pc = "thrown"]
    /\ UNCHANGED walkForwardOthers

\* After the loop: averageDegradation, robustnessScore, return.  The
\* aggregatedOutOfSample figures of the result are left out.
AnalyzeReturn ==
    /\ walkForward.pc = "loop"
    /\ Len(walkForward.results) = Len(walkForward.windows)
    /\ LET averageDegradation == AverageDegradation(walkForward.results)
       IN  walkForward' = [walkForward EXCEPT
                              !.pc = "done",
                              !.averageDegradation = averageDegradation,
                              !.robustnessScore = RobustnessScore(averageDegradation)]
    /\ UNCHANGED walkForwardOthers

NextWalkForward ==
    \/ Analyze
    \/ \E inSample \in InSampleValues, outOfSampleValue \in OutOfSampleValues :
          WindowAnalyzed(inSample, outOfSampleValue)
    \/ WindowThrows
    \/ AnalyzeReturn

SpecWalkForward == InitWalkForward /\ [][NextWalkForward]_vars

\* C13: in the window list of a rolling analysis the test range of a window
\* ends before the training range of the next one starts, and every window
\* of an anchored analysis trains from index 0.
C13_RollingDisjointAnchoredFromZero ==
    LET ws == walkForward.windows
    IN  IF walkForward.walkForwardConfig.windowType = "rolling"
        THEN \A k \in 1..(Len(ws) - 1) :
                 ws[k].testIndex.end < ws[k + 1].trainIndex.start
        ELSE \A k \in 1..Len(ws) : ws[k].trainIndex.start = 0

\* A rolling analysis has generated at least two windows with training and
\* test candles each.
C13_Witness ==
    /\ walkForward.pc = "loop"
    /\ walkForward.walkForwardConfig.windowType = "rolling"
    /\ Len(walkForward.windows) >= 2
    /\ \A k \in 1..Len(walkForward.windows) :
          /\ walkForward.windows[k].trainIndex.start < walkForward.windows[k].trainIndex.end
          /\ walkForward.windows[k].testIndex.start <= walkForward.windows[k].testIndex.end

\* clamp(x, 0, 100) on real numbers
Clamp0To100(a) ==
    CASE a.kind = "+inf" -> JsInt(100)
      [] a.kind = "-inf" -> JsInt(0)
      [] a.kind = "num" -> IF RLt(a.v, RInt(0)) THEN JsInt(0)
                           ELSE IF RLt(RInt(100), a.v) THEN JsInt(100) ELSE a
      [] OTHER -> a

\* C14 (as claimed): whenever analyze has returned, with zero windows too,
\* robustnessScore is 100 - averageDegradation clamped to [0, 100] and is a
\* number between 0 and 100.
C14_RobustnessScoreInRange ==
    walkForward.pc = "done" =>
        /\ walkForward.robustnessScore
              = Clamp0To100(JsSub(JsInt(100), walkForward.averageDegradation))
        /\ walkForward.robustnessScore.kind = "num"
        /\ RLe(RInt(0), walkForward.robustnessScore.v)
        /\ RLe(walkForward.robustnessScore.v, RInt(100))

\* --------------------------------------------------------------------------
\* MonteCarloSimulator (src/src/lib/monte-carlo.ts)
\* --------------------------------------------------------------------------

MaxTrades == 3

MaxSimulations == 2

\* A Trade as the simulator reads it: pnl, which is null while the trade is
\* open (closed = FALSE).
ClosedTrade(pnl) == [closed |-> TRUE, pnl |-> pnl]

OpenTrade == [closed |-> FALSE, pnl |-> 0]

TradeValues == { ClosedTrade(-50), ClosedTrade(100), OpenTrade }

RECURSIVE SeqsUpTo(_, _)
SeqsUpTo(S, n) ==
    IF n = 0 THEN { <<>> }
    ELSE SeqsUpTo(S, n - 1)
             \cup { Append(s, e) : s \in { t \in SeqsUpTo(S, n - 1) : Len(t) = n - 1 }, e \in S }

\* Ten trades alternating +100 and -50.
AlternatingTrades == [k \in 1..10 |-> ClosedTrade(IF k % 2 = 1 THEN 100 ELSE -50)]

\* The simulators constructed: short trade lists with a capital of 100 and a
\* ruin threshold of 0.5 or 0.2, and the alternating list with a capital of
\* 10000 and a threshold of 0.99.
MonteCarloInputs ==
    { [trades |-> ts,
       config |-> [simulations |-> n, initialCapital |-> 100, ruinThreshold |-> Rat(1, d)]] :
        ts \in SeqsUpTo(TradeValues, MaxTrades), n \in 1..MaxSimulations, d \in {2, 5} }
    \cup { [trades |-> AlternatingTrades,
            config |-> [simulations |-> 1, initialCapital |-> 10000,
                        ruinThreshold |-> Rat(99, 100)]] }

\* Mutant: the element at b is copied over the one at a.
SwappedOverwrites(shuffled, a, b) == [shuffled EXCEPT ![a + 1] = shuffled[b + 1]]

\* [shuffled[i], shuffled[j]] = [shuffled[j], shuffled[i]], 0-based a and b
Swapped(shuffled, a, b) ==
    [shuffled EXCEPT ![a + 1] = shuffled[b + 1], ![b + 1] = shuffled[a + 1]]

\* Mutant: ruin only above the threshold.
HitsRuinAbove(drawdown, ruinThreshold) == RLt(ruinThreshold, drawdown)

\* drawdown >= this.config.ruinThreshold
HitsRuin(drawdown, ruinThreshold) == RLe(ruinThreshold, drawdown)

\* The loop of simulateEquityCurve over the rest of the trades.
RECURSIVE EquityLoop(_, _, _)
EquityLoop(rest, acc, ruinThreshold) ==
    IF rest = <<>> THEN acc
    ELSE IF ~Head(rest).closed THEN EquityLoop(Tail(rest), acc, ruinThreshold)
    ELSE LET e == RAdd(acc.equity, RInt(Head(rest).pnl))
             peak == IF RLt(acc.peak, e) THEN e ELSE acc.peak
             drawdown == RDiv(RSub(peak, e), peak)
         IN  EquityLoop(Tail(rest),
                        [equity |-> e, peak |-> peak,
                         maxDrawdown |-> IF RLt(acc.maxDrawdown, drawdown)
                                         THEN drawdown ELSE acc.maxDrawdown,
                         hitRuin |-> acc.hitRuin \/ HitsRuin(drawdown, ruinThreshold)],
                        ruinThreshold)

\* simulateEquityCurve(trades), the Sharpe ratio left out.
SimulateEquityCurve(ts, cfg) ==
    LET capital == RInt(cfg.initialCapital)
        end == EquityLoop(ts, [equity |-> capital, peak |-> capital,
                               maxDrawdown |-> RInt(0), hitRuin |-> FALSE],
                          cfg.ruinThreshold)
    IN  [totalReturn |-> RMul(RDiv(RSub(end.equity, capital), capital), RInt(100)),
         maxDrawdown |-> RMul(end.maxDrawdown, RInt(100)),
         finalEquity |-> end.equity,
         hitRuin |-> end.hitRuin]

\* arr.sort((a, b) => a - b) on finite numbers
SortNumbers(arr) ==
    LET q == CHOOSE p \in Permutations(1..Len(arr)) :
                 \A j, k \in 1..Len(arr) : j < k => RLe(arr[p[j]], arr[p[k]])
    IN  [k \in 1..Len(arr) |-> arr[q[k]]]

\* getPercentile(arr, p) for p in thousandths
GetPercentile(arr, p) == arr[Min2((Len(arr) * p) \div 1000, Len(arr) - 1) + 1]

\* percentiles and confidenceInterval95 of the returned object, the Sharpe
\* ratio left out.
PercentilesOf(rs) ==
    LET sortedReturns == SortNumbers([k \in 1..Len(rs) |-> rs[k].totalReturn])
        sortedDrawdowns == SortNumbers([k \in 1..Len(rs) |-> rs[k].maxDrawdown])
        sortedEquities == SortNumbers([k \in 1..Len(rs) |-> rs[k].finalEquity])
        At(p) == [totalReturn |-> GetPercentile(sortedReturns, p),
                  maxDrawdown |-> GetPercentile(sortedDrawdowns, 1000 - p),
                  finalEquity |-> GetPercentile(sortedEquities, p)]
    IN  [percentiles |-> [p5 |-> At(50), p25 |-> At(250), p50 |-> At(500),
                          p75 |-> At(750), p95 |-> At(950)],
         confidenceInterval95 |->
             [returnLow |-> GetPercentile(sortedReturns, 25),
              returnHigh |-> GetPercentile(sortedReturns, 975),
              drawdownLow |-> GetPercentile(sortedDrawdowns, 25),
              drawdownHigh |-> GetPercentile(sortedDrawdowns, 975)]]

\* emptyResult()
EmptyResult(cfg) ==
    LET emptyPercentile == [totalReturn |-> RInt(0), maxDrawdown |-> RInt(0),
                            finalEquity |-> RInt(cfg.initialCapital)]
    IN  [simulations |-> 0,
         percentiles |-> [p5 |-> emptyPercentile, p25 |-> emptyPercentile,
                          p50 |-> emptyPercentile, p75 |-> emptyPercentile,
                          p95 |-> emptyPercentile],
         riskOfRuin |-> RInt(0),
         confidenceInterval95 |-> [returnLow |-> RInt(0), returnHigh |-> RInt(0),
                                   drawdownLow |-> RInt(0), drawdownHigh |-> RInt(0)]]

\* The largest index the shuffle of any input can draw.
MaxShuffleIndex == Max2(MaxTrades, Len(AlternatingTrades)) - 1

monteCarloOthers == <<engineVars, strategyVars, gridVars, genetic, walkForward, metricsCall, indicatorCall, paper, enumeration>>

\* new MonteCarloSimulator(trades, originalMetrics, config)
InitMonteCarlo ==
    /\ EngineParked
    /\ StrategyIdle
    /\ GridIdle
    /\ IdleBut("monteCarlo")
    /\ \E input \in MonteCarloInputs :
          monteCarlo = [pc |-> "new", trades |-> input.trades, config |-> input.config,
                        closedTrades |-> <<>>, sim |-> 0, shuffled |-> <<>>, at |-> 0,
                        results |-> <<>>, ruinCount |-> 0, returned |-> <<>>]

\* simulate() with no closed trade: the empty result.
SimulateEmpty ==
    /\ monteCarlo.pc = "new"
    /\ SelectSeq(monteCarlo.trades, LAMBDA t : t.closed) = <<>>
    /\ monteCarlo' = [monteCarlo EXCEPT !.pc = "done",
                                        !.returned = << EmptyResult(monteCarlo.config) >>]
    /\ UNCHANGED monteCarloOthers

\* simulate() up to the loop.
Simulate ==
    /\ monteCarlo.pc = "new"
    /\ SelectSeq(monteCarlo.trades, LAMBDA t : t.closed) # <<>>
    /\ monteCarlo' = [monteCarlo EXCEPT
                         !.pc = "loop",
                         !.closedTrades = SelectSeq(monteCarlo.trades, LAMBDA t : t.closed),
                         !.ruinCount = 0, !.sim = 0]
    /\ UNCHANGED monteCarloOthers

\* One simulation begins: shuffleTrades copies the closed trades.
ShuffleTrades ==
    /\ monteCarlo.pc = "loop"
    /\ monteCarlo.sim < monteCarlo.config.simulations
    /\ monteCarlo' = [monteCarlo EXCEPT !.pc = "shuffle",
                                        !.shuffled = monteCarlo.closedTrades,
                                        !.at = Len(monteCarlo.closedTrades) - 1]
    /\ UNCHANGED monteCarloOthers

\* One turn of the Fisher-Yates loop: Math.random() picks j in 0..i.
ShuffleSwap(j) ==
    /\ monteCarlo.pc = "shuffle"
    /\ monteCarlo.at > 0
    /\ j \in 0..monteCarlo.at
    /\ monteCarlo' = [monteCarlo EXCEPT
                         !.shuffled = Swapped(@, monteCarlo.at, j),
                         !.at = @ - 1]
    /\ UNCHANGED monteCarloOthers

\* The shuffle is done: simulate the equity curve, push the result, count ruin.
SimulationDone ==
    /\ monteCarlo.pc = "shuffle"
    /\ monteCarlo.at <= 0
    /\ LET result == SimulateEquityCurve(monteCarlo.shuffled, monteCarlo.config)
       IN  monteCarlo' = [monteCarlo EXCEPT
                             !.pc = "loop",
                             !.results = Append(@, result),
                             !.ruinCount = IF result.hitRuin THEN @ + 1 ELSE @,
                             !.sim = @ + 1]
    /\ UNCHANGED monteCarloOthers

\* After the loop: percentiles, riskOfRuin, return.
SimulateReturn ==
    /\ monteCarlo.pc = "loop"
    /\ monteCarlo.sim >= monteCarlo.config.simulations
    /\ LET p == PercentilesOf(monteCarlo.results)
       IN  monteCarlo' = [monteCarlo EXCEPT
               !.pc = "done",
               !.returned = << [simulations |-> monteCarlo.config.simulations,
                                percentiles |-> p.percentiles,
                                riskOfRuin |-> RMul(Rat(monteCarlo.ruinCount,
                                                        monteCarlo.config.simulations),
                                                    RInt(100)),
                                confidenceInterval95 |-> p.confidenceInterval95] >>]
    /\ UNCHANGED monteCarloOthers

NextMonteCarlo ==
    \/ SimulateEmpty
    \/ Simulate
    \/ ShuffleTrades
    \/ \E j \in 0..MaxShuffleIndex : ShuffleSwap(j)
    \/ SimulationDone
    \/ SimulateReturn

SpecMonteCarlo == InitMonteCarlo /\ [][NextMonteCarlo]_vars

\* How often e occurs in s.
Occurrences(s, e) == Cardinality({ k \in 1..Len(s) : s[k] = e })

\* The closed trades handed to the simulator, in their original order.
ClosedOf(ts) == SelectSeq(ts, LAMBDA t : t.closed)

\* The sum of the pnl of the closed trades.
RECURSIVE SumPnl(_)
SumPnl(ts) == IF ts = <<>> THEN 0 ELSE Head(ts).pnl + SumPnl(Tail(ts))

MaxOfSet(S) == CHOOSE m \in S : \A e \in S : e <= m

\* The drawdown (peak - equity) / peak after the first k trades of ts, for a
\* start from capital.
DrawdownAfter(ts, k, capital) ==
    LET EquityAt(n) == capital + SumPnl(SubSeq(ts, 1, n))
        peak == MaxOfSet({ EquityAt(n) : n \in 0..k })
    IN  Rat(peak - EquityAt(k), peak)

\* Some step of replaying ts reaches the ruin threshold.
ReachesRuin(ts, cfg) ==
    \E k \in 1..Len(ts) :
        RLe(cfg.ruinThreshold, DrawdownAfter(ts, k, cfg.initialCapital))

\* C16, every simulation: its result counts as ruin exactly if some step of
\* the replayed sequence has a drawdown of at least ruinThreshold.
C16_StepRuin ==
    monteCarlo.pc = "shuffle" /\ monteCarlo'.pc = "loop" =>
        /\ Len(monteCarlo'.results) = Len(monteCarlo.results) + 1
        /\ monteCarlo'.results[Len(monteCarlo'.results)].hitRuin
              = ReachesRuin(monteCarlo.shuffled, monteCarlo.config)

\* C16, the result: ruinCount counts the simulations that hit ruin,
\* riskOfRuin is ruinCount / simulations * 100, and the ten alternating
\* trades with a capital of 10000 and a threshold of 0.99 give 0.
C16_StateRuin ==
    /\ monteCarlo.pc # "idle" =>
          monteCarlo.ruinCount
              = Cardinality({ k \in 1..Len(monteCarlo.results) :
                                monteCarlo.results[k].hitRuin })
    /\ monteCarlo.pc = "done" /\ ClosedOf(monteCarlo.trades) # <<>> =>
          monteCarlo.returned[1].riskOfRuin
              = Rat(monteCarlo.ruinCount * 100, monteCarlo.config.simulations)
    /\ monteCarlo.pc = "done" /\ monteCarlo.trades = AlternatingTrades =>
          monteCarlo.returned[1].riskOfRuin = RInt(0)

\* C16: ruin is counted exactly for the simulations in which some step has a
\* drawdown (peak - equity) / peak >= ruinThreshold; riskOfRuin = ruinCount /
\* simulations * 100; the alternating example has riskOfRuin 0.
C16_RuinIffDrawdownReachesThreshold == []C16_StateRuin /\ [][C16_StepRuin]_vars

\* A simulation was counted as ruin with a drawdown equal to the threshold,
\* another was not, and riskOfRuin is 50.
C16_Witness ==
    /\ monteCarlo.pc = "done"
    /\ monteCarlo.config.ruinThreshold = Rat(1, 2)
    /\ Len(monteCarlo.results) = 2
    /\ monteCarlo.results[1].hitRuin
    /\ monteCarlo.results[1].maxDrawdown = RInt(50)
    /\ ~monteCarlo.results[2].hitRuin
    /\ monteCarlo.returned[1].riskOfRuin = RInt(50)

\* --------------------------------------------------------------------------
\* calculateMetrics (src/unnamed/part_005), called on a trade list
\* --------------------------------------------------------------------------

MaxMetricTrades == 3

\* The pnl of the trades handed over: losses, zero, wins, and null for a
\* trade that is still open.
MetricPnls == { JsInt(-50), JsInt(-30), JsInt(0), JsInt(40), [kind |-> "null", v |-> RInt(0)] }

MetricTrades == SeqsUpTo({ [pnl |-> x] : x \in MetricPnls }, MaxMetricTrades)

\* t.pnl ?? 0
PnlOrZero(t) == IF t.pnl.kind = "null" THEN JsInt(0) ELSE t.pnl

\* Mutant: without losses the profit factor is 0.
ProfitFactorZeroWithoutLosses(totalWins, totalLosses) ==
    IF JsGreater(totalLosses, JsInt(0)) THEN JsDiv(totalWins, totalLosses) ELSE JsInt(0)

\* totalLosses > 0 ? totalWins / totalLosses : totalWins > 0 ? Infinity : 0
ProfitFactor(totalWins, totalLosses) ==
    IF JsGreater(totalLosses, JsInt(0)) THEN JsDiv(totalWins, totalLosses)
    ELSE IF JsGreater(totalWins, JsInt(0)) THEN JsPosInfinity ELSE JsInt(0)

\* The win/loss analysis of calculateMetrics; getEmptyMetrics() when no
\* trade is completed.
WinLossAnalysis(ts) ==
    LET completedTrades == SelectSeq(ts, LAMBDA t : t.pnl.kind # "null")
        winningTrades == SelectSeq(completedTrades,
                                   LAMBDA t : JsGreater(PnlOrZero(t), JsInt(0)))
        losingTrades == SelectSeq(completedTrades,
                                  LAMBDA t : JsGreater(JsInt(0), PnlOrZero(t)))
        totalWins == JsSumFrom([k \in 1..Len(winningTrades) |-> PnlOrZero(winningTrades[k])],
                               JsInt(0))
        totalLosses == MathAbs(JsSumFrom([k \in 1..Len(losingTrades) |->
                                              PnlOrZero(losingTrades[k])], JsInt(0)))
    IN  IF Len(completedTrades) = 0
        THEN [winRate |-> JsInt(0), profitFactor |-> JsInt(0), totalTrades |-> 0,
              winningTrades |-> 0, losingTrades |-> 0]
        ELSE [winRate |-> JsMul(JsDiv(JsInt(Len(winningTrades)),
                                      JsInt(Len(completedTrades))), JsInt(100)),
              profitFactor |-> ProfitFactor(totalWins, totalLosses),
              totalTrades |-> Len(completedTrades),
              winningTrades |-> Len(winningTrades),
              losingTrades |-> Len(losingTrades)]

\* A caller holds a trade list.
InitMetrics ==
    /\ EngineParked
    /\ StrategyIdle
    /\ GridIdle
    /\ IdleBut("metricsCall")
    /\ \E ts \in MetricTrades :
          metricsCall = [pc |-> "call", trades |-> ts, metrics |-> <<>>]

\* calculateMetrics(trades, ...) returns.
CalculateMetricsReturns ==
    /\ metricsCall.pc = "call"
    /\ metricsCall' = [metricsCall EXCEPT !.pc = "returned",
                                          !.metrics = << WinLossAnalysis(metricsCall.trades) >>]
    /\ UNCHANGED <<engineVars, strategyVars, gridVars, genetic, walkForward, monteCarlo,
                   indicatorCall, paper, enumeration>>

NextMetrics == CalculateMetricsReturns

SpecMetrics == InitMetrics /\ [][NextMetrics]_vars

\* The sum of the positive pnl of the trades handed over.
SumOfWins ==
    LET F[k \in 0..Len(metricsCall.trades)] ==
            IF k = 0 THEN 0
            ELSE LET x == metricsCall.trades[k].pnl
                 IN  F[k - 1] + IF x.kind = "num" /\ x.v.n > 0 THEN x.v.n ELSE 0
    IN  F[Len(metricsCall.trades)]

\* The absolute value of the sum of their negative pnl.
SumOfLosses ==
    LET F[k \in 0..Len(metricsCall.trades)] ==
            IF k = 0 THEN 0
            ELSE LET x == metricsCall.trades[k].pnl
                 IN  F[k - 1] + IF x.kind = "num" /\ x.v.n < 0 THEN 0 - x.v.n ELSE 0
    IN  F[Len(metricsCall.trades)]

\* C17 (as claimed): profitFactor is Infinity exactly if totalLosses = 0 and
\* totalWins > 0, 0 exactly if both are 0, and the quotient of the sums in
\* every other case.
C17_ProfitFactorZeroIffBothZero ==
    metricsCall.pc = "returned" =>
        LET profitFactor == metricsCall.metrics[1].profitFactor
        IN  /\ profitFactor = JsPosInfinity <=> (SumOfLosses = 0 /\ SumOfWins > 0)
            /\ profitFactor = JsInt(0) <=> (SumOfLosses = 0 /\ SumOfWins = 0)
            /\ SumOfLosses # 0 => profitFactor = JsNum(Rat(SumOfWins, SumOfLosses))

\* C17 (amended): profitFactor is Infinity exactly if totalLosses = 0 and
\* totalWins > 0, 0 exactly if totalWins = 0 (with or without losses), and
\* the quotient of the sums whenever there are losses.
C17_ProfitFactorZeroIffNoWins ==
    metricsCall.pc = "returned" =>
        LET profitFactor == metricsCall.metrics[1].profitFactor
        IN  /\ profitFactor = JsPosInfinity <=> (SumOfLosses = 0 /\ SumOfWins > 0)
            /\ profitFactor = JsInt(0) <=> SumOfWins = 0
            /\ SumOfLosses # 0 => profitFactor = JsNum(Rat(SumOfWins, SumOfLosses))

\* calculateMetrics has returned a profit factor of 0 for trades that lost.
C17_Witness ==
    /\ metricsCall.pc = "returned"
    /\ SumOfLosses > 0
    /\ SumOfWins = 0
    /\ metricsCall.metrics[1].profitFactor = JsInt(0)
    /\ metricsCall.metrics[1].losingTrades = 2

\* --------------------------------------------------------------------------
\* Technical indicators (src/src/lib/optimizer/index.ts)
\* --------------------------------------------------------------------------

MaxDataLength == 4

MaxPeriod == 3

\* sum of data[i - j] for j = 0 .. period - 1, i 0-based
WindowSum(data, idx, period) ==
    JsSumFrom([j \in 1..period |-> data[idx + 1 - (j - 1)]], JsInt(0))

\* sma(data, period)
Sma(data, period) ==
    [k \in 1..Len(data) |->
        IF k - 1 < period - 1 THEN JsNaN
        ELSE JsDiv(WindowSum(data, k - 1, period), JsInt(period))]

\* ema(data, period)
Ema(data, period) ==
    LET multiplier == JsDiv(JsInt(2), JsInt(period + 1))
        result[k \in 1..Len(data)] ==
            IF k - 1 = 0 THEN data[1]
            ELSE IF k - 1 < period - 1
            THEN JsDiv(JsSumFrom(SubSeq(data, 1, k), JsInt(0)), JsInt(k))
            ELSE IF k - 1 = period - 1
            THEN JsDiv(WindowSum(data, k - 1, period), JsInt(period))
            ELSE JsAdd(JsMul(JsSub(data[k], result[k - 1]), multiplier), result[k - 1])
    IN  [k \in 1..Len(data) |-> result[k]]

\* The loop of highest / lowest over the window, by Math.max or Math.min.
RECURSIVE WindowFold(_, _, _, _, _)
WindowFold(Op(_, _), data, idx, period, j) ==
    IF j = 0 THEN data[idx + 1]
    ELSE Op(WindowFold(Op, data, idx, period, j - 1), data[idx + 1 - j])

\* highest(data, period)
Highest(data, period) ==
    [k \in 1..Len(data) |->
        IF k - 1 < period - 1 THEN JsNaN
        ELSE WindowFold(MathMax, data, k - 1, period, period - 1)]

\* lowest(data, period)
Lowest(data, period) ==
    [k \in 1..Len(data) |->
        IF k - 1 < period - 1 THEN JsNaN
        ELSE WindowFold(MathMin, data, k - 1, period, period - 1)]

\* macd(closes, fastPeriod, slowPeriod, signalPeriod)
Macd(closes, fastPeriod, slowPeriod, signalPeriod) ==
    LET fastEMA == Ema(closes, fastPeriod)
        slowEMA == Ema(closes, slowPeriod)
        macdLine == [k \in 1..Len(closes) |->
                        IF JsIsNaN(fastEMA[k]) \/ JsIsNaN(slowEMA[k]) THEN JsNaN
                        ELSE JsSub(fastEMA[k], slowEMA[k])]
        signalLine == Ema([k \in 1..Len(closes) |->
                              IF JsIsNaN(macdLine[k]) THEN JsInt(0) ELSE macdLine[k]],
                          signalPeriod)
        histogram == [k \in 1..Len(closes) |->
                         IF JsIsNaN(macdLine[k]) \/ JsIsNaN(signalLine[k]) THEN JsNaN
                         ELSE JsSub(macdLine[k], signalLine[k])]
    IN  [macd |-> macdLine, signal |-> signalLine, histogram |-> histogram]

\* The indicators called; macd runs with fastPeriod 1 and the period as
\* slowPeriod and signalPeriod.
IndicatorNames == {"sma", "ema", "highest", "lowest", "macd"}

\* The number array an indicator call returns; for macd the macd line.
IndicatorOutput(name, data, period) ==
    CASE name = "sma" -> Sma(data, period)
      [] name = "ema" -> Ema(data, period)
      [] name = "highest" -> Highest(data, period)
      [] name = "lowest" -> Lowest(data, period)
      [] OTHER -> Macd(data, 1, period, period).macd

\* A caller holds a series and a period.
InitIndicators ==
    /\ EngineParked
    /\ StrategyIdle
    /\ GridIdle
    /\ IdleBut("indicatorCall")
    /\ \E name \in IndicatorNames, period \in 1..MaxPeriod,
          data \in SeqsUpTo({JsInt(1), JsInt(3)}, MaxDataLength) :
          indicatorCall = [pc |-> "call", name |-> name, data |-> data,
                           period |-> period, output |-> <<>>]

\* The indicator returns.
IndicatorReturns ==
    /\ indicatorCall.pc = "call"
    /\ indicatorCall' = [indicatorCall EXCEPT
                            !.pc = "returned",
                            !.output = IndicatorOutput(indicatorCall.name, indicatorCall.data,
                                                       indicatorCall.period)]
    /\ UNCHANGED <<engineVars, strategyVars, gridVars, genetic, walkForward, monteCarlo,
                   metricsCall, paper, enumeration>>

NextIndicators == IndicatorReturns

SpecIndicators == InitIndicators /\ [][NextIndicators]_vars

\* C18 (as claimed): the output of an indicator with period P on a series of
\* length N has length N, is NaN at every index below P - 1 and a number from
\* there on; so with N < P it is NaN throughout.
C18_NaNExactlyBeforeWindow ==
    indicatorCall.pc = "returned" =>
        /\ Len(indicatorCall.output) = Len(indicatorCall.data)
        /\ \A k \in 1..Len(indicatorCall.output) :
              IF k - 1 < indicatorCall.period - 1
              THEN JsIsNaN(indicatorCall.output[k])
              ELSE indicatorCall.output[k].kind = "num"

\* --------------------------------------------------------------------------
\* SMACrossoverStrategy (src/src/strategies/sma-crossover.ts) run by the
\* engine on a linearly rising series
\* --------------------------------------------------------------------------

\* new SMACrossoverStrategy({ fastPeriod: 5, slowPeriod: 20 }): the other
\* parameters are those of DEFAULT_SMA_PARAMS.
SMACrossoverParams ==
    [fastPeriod |-> 5, slowPeriod |-> 20, useAtrStopLoss |-> TRUE, atrMultiplier |-> 2,
     atrPeriod |-> 14]

\* crossover(fast, slow, index)
Crossover(fast, slow, idx) ==
    IF idx < 1 THEN FALSE
    ELSE IF \/ JsIsNaN(fast[idx + 1]) \/ JsIsNaN(slow[idx + 1])
            \/ JsIsNaN(fast[idx]) \/ JsIsNaN(slow[idx])
    THEN FALSE
    ELSE ~JsGreater(fast[idx], slow[idx]) /\ JsGreater(fast[idx + 1], slow[idx + 1])

\* crossunder(fast, slow, index)
Crossunder(fast, slow, idx) ==
    IF idx < 1 THEN FALSE
    ELSE IF \/ JsIsNaN(fast[idx + 1]) \/ JsIsNaN(slow[idx + 1])
            \/ JsIsNaN(fast[idx]) \/ JsIsNaN(slow[idx])
    THEN FALSE
    ELSE ~JsGreater(slow[idx], fast[idx]) /\ JsGreater(slow[idx + 1], fast[idx + 1])

\* The true range of candle k (1-based) of atr.
TrueRange(cs, k) ==
    IF k = 1 THEN JsInt(cs[k].high - cs[k].low)
    ELSE MathMax(MathMax(JsInt(cs[k].high - cs[k].low),
                         JsInt(Abs(cs[k].high - cs[k - 1].close))),
                 JsInt(Abs(cs[k].low - cs[k - 1].close)))

\* atr(candles, period)
Atr(cs, period) ==
    LET tr == [k \in 1..Len(cs) |-> TrueRange(cs, k)]
        result[k \in 1..Len(cs)] ==
            IF k - 1 < period - 1 THEN JsNaN
            ELSE IF k - 1 = period - 1
            THEN JsDiv(WindowSum(tr, k - 1, period), JsInt(period))
            ELSE JsDiv(JsAdd(JsMul(result[k - 1], JsInt(period - 1)), tr[k]), JsInt(period))
    IN  [k \in 1..Len(cs) |-> result[k]]

\* The stop of a signal: close - currentATR * atrMultiplier for a buy (side
\* -1), close + ... for a sell (side 1), undefined (0) without an ATR.  The
\* engine model holds levels in whole price units: the level is rounded down.
\* The ATR is an exact fraction and is computed only for a candle on which
\* a signal is returned.
AtrStopLoss(cs, idx, params, side) ==
    LET atrValue == Atr(cs, params.atrPeriod)[idx + 1]
        currentATR == IF JsIsNaN(atrValue) THEN JsInt(0) ELSE atrValue
        level == JsAdd(JsInt(cs[idx + 1].close),
                       JsMul(JsInt(side * params.atrMultiplier), currentATR))
    IN  IF params.useAtrStopLoss /\ JsGreater(currentATR, JsInt(0))
        THEN level.v.n \div level.v.d
        ELSE 0

\* SMACrossoverStrategy.onCandle(index, history, position): <<>> is null.
\* fastSMA and slowSMA are what onInit computed from the candles.
SMACrossoverOnCandle(cs, idx, pos, params) ==
    LET closes == [k \in 1..Len(cs) |-> JsInt(cs[k].close)]
        fastSMA == Sma(closes, params.fastPeriod)
        slowSMA == Sma(closes, params.slowPeriod)
    IN  IF idx < params.slowPeriod THEN <<>>
        ELSE IF Crossover(fastSMA, slowSMA, idx)
        THEN << [type |-> "buy", size |-> 0,
                 stopLoss |-> AtrStopLoss(cs, idx, params, -1), takeProfit |-> 0] >>
        ELSE IF Crossunder(fastSMA, slowSMA, idx)
        THEN IF pos # <<>> /\ pos[1].direction = "long"
             THEN << [type |-> "close", size |-> 0, stopLoss |-> 0, takeProfit |-> 0] >>
             ELSE << [type |-> "sell", size |-> 0,
                      stopLoss |-> AtrStopLoss(cs, idx, params, 1), takeProfit |-> 0] >>
        ELSE <<>>

\* The close of candle k (0-based) of 100 candles rising linearly from 2650
\* to 2750, in price units of 1/99.
LinearClose(k) == 2650 * 99 + 100 * k

\* The series as flat candles, and as candles that open at the previous
\* close and end at their high.
LinearSeries ==
    { [k \in 1..100 |-> WithTime([open |-> LinearClose(k - 1), high |-> LinearClose(k - 1),
                                  low |-> LinearClose(k - 1), close |-> LinearClose(k - 1)],
                                 k - 1)],
      [k \in 1..100 |-> WithTime([open |-> LinearClose(Max2(k - 2, 0)),
                                  high |-> LinearClose(k - 1),
                                  low |-> LinearClose(Max2(k - 2, 0)),
                                  close |-> LinearClose(k - 1)],
                                 k - 1)] }

\* initialCapital 10000, commission 0, slippage 0; leverage and
\* maxPositionSize of DEFAULT_BACKTEST_CONFIG.
ScenarioConfig ==
    [initialCapital |-> 10000, commission |-> RInt(0), slippage |-> 0,
     leverage |-> 100, maxPositionSize |-> Rat(1, 10)]

InitScenario ==
    /\ EngineInit(ScenarioConfig)
    /\ StrategyIdle
    /\ GridIdle
    /\ ToolsIdle

\* engine.run(candles, new SMACrossoverStrategy({ fastPeriod: 5, slowPeriod: 20 }))
NextScenario ==
    \/ \E cs \in LinearSeries : RunStart(cs, 1)
    \/ StrategyInit
    \/ CheckExit
    \/ OnCandle(SMACrossoverOnCandle(candles, currentIndex, position, SMACrossoverParams))
    \/ Execute
    \/ UpdateEquityCurve
    \/ CloseAtEnd
    \/ OnComplete
    \/ Return

SpecScenario == InitScenario /\ [][NextScenario]_vars

\* C19 (as claimed): the run returns exactly one trade, a long one entered
\* on candle 19 or 20, with a positive pnl.
C19_OneWinningLongTrade ==
    \A k \in 1..Len(results) :
        LET ts == results[k].tradesAtReturn
        IN  /\ Len(ts) = 1
            /\ ts[1].direction = "long"
            /\ ts[1].entryTime \in { WithTime(CHOOSE s \in CandleShapes : TRUE, 19).timestamp,
                                     WithTime(CHOOSE s \in CandleShapes : TRUE, 20).timestamp }
            /\ RLt(RInt(0), ts[1].pnl)

\* --------------------------------------------------------------------------
\* PaperTradingSimulator (src/src/lib/data-feeds.ts)
\* --------------------------------------------------------------------------

MaxOpenPositions == 2

\* The prices of the feed.
PaperPrices == {8, 10, 12}

\* The openPosition calls made, at price 10 with size 1: a long with a stop at
\* 8 and a target at 12 or without either, a short with a stop at 12 and a
\* target at 8.  0 stands for an absent stopLoss or takeProfit, which is
\* falsy like 0.
PaperOrders ==
    { [direction |-> "long", stopLoss |-> sl, takeProfit |-> tp] :
        sl \in {0, 8}, tp \in {0, 12} }
    \cup { [direction |-> "short", stopLoss |-> 12, takeProfit |-> 8] }

\* calculatePnl(position, currentPrice)
CalculatePnl(p, currentPrice) ==
    (currentPrice - p.entryPrice) * p.size * (IF p.direction = "long" THEN 1 ELSE -1)

\* closePosition(positionId, currentPrice) on the simulator fields s.  The
\* times of a trade are left out; position records the position it closed.
PaperClose(s, positionId, currentPrice) ==
    LET found == { k \in 1..Len(s.positions) : s.positions[k].id = positionId }
    IN  IF found = {} THEN s
        ELSE LET posIdx == CHOOSE k \in found : \A l \in found : k <= l
                 p == s.positions[posIdx]
                 pnl == CalculatePnl(p, currentPrice)
                 trade == [id |-> s.idCounter + 1, direction |-> p.direction,
                           entryPrice |-> p.entryPrice, exitPrice |-> currentPrice,
                           size |-> p.size, pnl |-> pnl, position |-> p]
             IN  [s EXCEPT !.idCounter = @ + 1,
                           !.balance = @ + pnl,
                           !.trades = Append(@, trade),
                           !.positions = SubSeq(@, 1, posIdx - 1)
                                             \o SubSeq(@, posIdx + 1, Len(@))]

\* position.stopLoss is set and hit at currentPrice
SlHit(p, currentPrice) ==
    /\ Truthy(p.stopLoss)
    /\ IF p.direction = "long" THEN currentPrice <= p.stopLoss
                               ELSE currentPrice >= p.stopLoss

\* position.takeProfit is set and hit at currentPrice
TpHit(p, currentPrice) ==
    /\ Truthy(p.takeProfit)
    /\ IF p.direction = "long" THEN currentPrice >= p.takeProfit
                               ELSE currentPrice <= p.takeProfit

\* The body of the for...of loop of updatePositions for the position at
\* 0-based index idx of the array.
UpdateOne(s, idx, currentPrice) ==
    LET p == [s.positions[idx + 1] EXCEPT
                 !.unrealizedPnl = CalculatePnl(s.positions[idx + 1], currentPrice)]
        s0 == [s EXCEPT !.positions[idx + 1] = p]
        s1 == IF SlHit(p, currentPrice) THEN PaperClose(s0, p.id, p.stopLoss) ELSE s0
    IN  IF TpHit(p, currentPrice) THEN PaperClose(s1, p.id, p.takeProfit) ELSE s1

\* The for...of loop of updatePositions: its iterator reads
\* this.positions[idx] while idx < this.positions.length, on the array that
\* closePosition splices.
RECURSIVE UpdateLoop(_, _, _)
UpdateLoop(s, idx, currentPrice) ==
    IF idx >= Len(s.positions) THEN s
    ELSE UpdateLoop(UpdateOne(s, idx, currentPrice), idx + 1, currentPrice)

paperOthers == <<engineVars, strategyVars, gridVars, genetic, walkForward, monteCarlo,
                 metricsCall, indicatorCall, enumeration>>

\* new PaperTradingSimulator(100)
InitPaper ==
    /\ EngineParked
    /\ StrategyIdle
    /\ GridIdle
    /\ IdleBut("paper")
    /\ paper = [pc |-> "ready", balance |-> 100, initialBalance |-> 100,
                positions |-> <<>>, trades |-> <<>>, idCounter |-> 0,
                lastCall |-> "constructor", lastPrice |-> 0]

\* openPosition(direction, 10, 1, stopLoss, takeProfit)
PaperOpenPosition(order) ==
    /\ paper.pc = "ready"
    /\ Len(paper.positions) + Len(paper.trades) < MaxOpenPositions
    /\ paper' = [paper EXCEPT
                    !.idCounter = @ + 1,
                    !.positions = Append(@, [id |-> paper.idCounter + 1,
                                             direction |-> order.direction,
                                             entryPrice |-> 10, size |-> 1,
                                             stopLoss |-> order.stopLoss,
                                             takeProfit |-> order.takeProfit,
                                             unrealizedPnl |-> 0]),
                    !.lastCall = "openPosition"]
    /\ UNCHANGED paperOthers

\* closePosition(positionId, currentPrice) for an open position
PaperClosePosition(positionId, currentPrice) ==
    /\ paper.pc = "ready"
    /\ \E k \in 1..Len(paper.positions) : paper.positions[k].id = positionId
    /\ paper' = [PaperClose(paper, positionId, currentPrice) EXCEPT
                    !.lastCall = "closePosition", !.lastPrice = currentPrice]
    /\ UNCHANGED paperOthers

\* updatePositions(currentPrice)
UpdatePositions(currentPrice) ==
    /\ paper.pc = "ready"
    /\ paper.positions # <<>>
    /\ paper' = [UpdateLoop(paper, 0, currentPrice) EXCEPT
                    !.lastCall = "updatePositions", !.lastPrice = currentPrice]
    /\ UNCHANGED paperOthers

NextPaper ==
    \/ \E order \in PaperOrders : PaperOpenPosition(order)
    \/ \E positionId \in 1..(2 * MaxOpenPositions), currentPrice \in PaperPrices :
          PaperClosePosition(positionId, currentPrice)
    \/ \E currentPrice \in PaperPrices : UpdatePositions(currentPrice)

SpecPaper == InitPaper /\ [][NextPaper]_vars

\* C20 (as claimed), the state updatePositions(price) leaves: no open
\* position has its stop loss or take profit hit at price, and no position
\* was closed twice.
C20_StateNoHitLeft ==
    /\ paper.lastCall = "updatePositions" =>
          \A k \in 1..Len(paper.positions) :
              /\ ~SlHit(paper.positions[k], paper.lastPrice)
              /\ ~TpHit(paper.positions[k], paper.lastPrice)
    /\ \A j, k \in 1..Len(paper.trades) :
          j # k => paper.trades[j].position.id # paper.trades[k].position.id

\* C20 (as claimed), the step of updatePositions(price): every position hit
\* at price is gone from the positions, and the trades the call has added
\* closed a hit position at its stop or target level.
C20_StepHitClosedAtLevel ==
    paper'.lastCall = "updatePositions" /\ paper' # paper =>
        /\ \A k \in 1..Len(paper.positions) :
              SlHit(paper.positions[k], paper'.lastPrice)
                  \/ TpHit(paper.positions[k], paper'.lastPrice)
              => /\ \A l \in 1..Len(paper'.positions) :
                        paper'.positions[l].id # paper.positions[k].id
                 /\ \E l \in (Len(paper.trades) + 1)..Len(paper'.trades) :
                        paper'.trades[l].position.id = paper.positions[k].id
        /\ \A l \in (Len(paper.trades) + 1)..Len(paper'.trades) :
              LET t == paper'.trades[l]
              IN  \/ SlHit(t.position, paper'.lastPrice) /\ t.exitPrice = t.position.stopLoss
                  \/ TpHit(t.position, paper'.lastPrice) /\ t.exitPrice = t.position.takeProfit

\* C20 (as claimed): after updatePositions(price) no position whose stop loss
\* or take profit is hit at price is open; each was closed once, at its
\* level, into the trade list, however many positions are open.
C20_AllHitPositionsClosed == []C20_StateNoHitLeft /\ [][C20_StepHitClosedAtLevel]_vars

\* --------------------------------------------------------------------------
\* WalkForwardAnalyzer.analyze: one window, with the grid search it runs
\* (src/unnamed/part_009, src/unnamed/part_008)
\* --------------------------------------------------------------------------

\* A metric value of the optimizer as a number of the degradation formula.
JsOf(x) == IF x.kind = "num" THEN JsInt(x.v) ELSE [kind |-> x.kind, v |-> RInt(0)]

\* outOfSampleResult.metrics[metric] of the window
WindowOutOfSampleValues == { Num(1), Num(3), PosInfinity }

\* The metrics object of one engine.run: the parameters and the slice of the
\* run that produced it, and its target metric.
RunMetrics(params, slice, metricValue) ==
    [params |-> params, slice |-> slice, metricValue |-> metricValue]

\* optimResult.allResults[0]?.metrics
InSampleMetrics(sorted) ==
    IF Len(sorted) > 0
    THEN RunMetrics(sorted[1].params, "train", sorted[1].metricValue)
    ELSE [slice |-> "undefined"]

\* The WalkForwardWindowResult pushed for the window, from the returned
\* OptimizationResult and the metric of the out-of-sample run.
WindowResultOf(best, sorted, outOfSampleValue) ==
    LET inSampleMetrics == InSampleMetrics(sorted)
        outOfSampleMetrics == RunMetrics(best, "test", outOfSampleValue)
    IN  [optimizedParams |-> best,
         inSampleMetrics |-> IF inSampleMetrics.slice = "undefined"
                             THEN outOfSampleMetrics ELSE inSampleMetrics,
         outOfSampleMetrics |-> outOfSampleMetrics,
         degradation |-> IF inSampleMetrics.slice = "undefined" THEN JsInt(0)
                         ELSE Degradation(JsOf(inSampleMetrics.metricValue),
                                          JsOf(outOfSampleValue))]

\* new WalkForwardAnalyzer(...).analyze(...) at the first window, with a new
\* GridSearchOptimizer on the training slice.
InitWindow ==
    /\ EngineParked
    /\ StrategyIdle
    /\ IdleBut("walkForward")
    /\ optimizationConfig \in OptimizationConfigs
    /\ combinations = <<>>
    /\ i = 0
    /\ allResults = <<>>
    /\ bestParams = <<>>
    /\ bestMetricValue = <<>>
    /\ totalCombinations = 0
    /\ evaluated = <<>>
    /\ progressCalls = <<>>
    /\ gpc = "new"
    /\ walkForward = [pc |-> "window", results |-> <<>>]

\* optimizer.optimize has returned: the out-of-sample run with the optimized
\* parameters returns, degradation is computed and the result is pushed.
WindowResult(outOfSampleValue) ==
    /\ walkForward.pc = "window"
    /\ gpc = "done"
    /\ walkForward' = [pc |-> "pushed",
                       results |-> << WindowResultOf(bestParams, allResults,
                                                     outOfSampleValue) >>]
    /\ UNCHANGED <<engineVars, strategyVars, gridVars, genetic, monteCarlo, metricsCall,
                   indicatorCall, paper, enumeration>>

NextWindow ==
    \/ Optimize
    \/ \E metricValue \in MetricValues : EvaluateReturns(metricValue)
    \/ EvaluateThrows
    \/ FactoryThrows
    \/ ReturnResult
    \/ \E outOfSampleValue \in WindowOutOfSampleValues : WindowResult(outOfSampleValue)

SpecWindow == InitWindow /\ [][NextWindow]_vars

\* The evaluations of the grid search that returned a result for params.
RunsOf(params) ==
    { k \in 1..Len(evaluated) : evaluated[k].ok /\ evaluated[k].params = params }

\* (inSample - outOfSample) / |inSample| * 100, and 0 when inSample is 0
DegradationFormula(inSample, outOfSample) ==
    IF inSample = JsInt(0) THEN JsInt(0)
    ELSE JsMul(JsDiv(JsSub(inSample, outOfSample), MathAbs(inSample)), JsInt(100))

\* C21 (as claimed): the inSampleMetrics of a window result are metrics of a
\* run of its optimizedParams (the grid search's bestParams) on the training
\* slice, and its degradation is (inSample - outOfSample) / |inSample| * 100
\* of the target metric of that run and of the out-of-sample run, 0 when the
\* in-sample value is 0.
C21_InSampleIsBestParamsRun ==
    \A k \in 1..Len(walkForward.results) :
        LET r == walkForward.results[k]
        IN  /\ r.optimizedParams = bestParams
            /\ r.inSampleMetrics.slice = "train"
            /\ r.inSampleMetrics.params = r.optimizedParams
            /\ \E e \in RunsOf(r.optimizedParams) :
                  /\ evaluated[e].metricValue = r.inSampleMetrics.metricValue
                  /\ r.degradation =
                        DegradationFormula(JsOf(evaluated[e].metricValue),
                                           JsOf(r.outOfSampleMetrics.metricValue))

\* C22 (as claimed): while optimize runs, onProgress has been called once for
\* each combination handled so far, the k-th call with k / totalCombinations;
\* the reported fractions increase strictly; and when optimize returns, the
\* last reported fraction is 1, also in runs in which evaluations fail.
C22_ProgressAfterEachCombination ==
    gpc \in {"loop", "done"} =>
        /\ Len(progressCalls) = i
        /\ \A k \in 1..Len(progressCalls) :
              /\ progressCalls[k].progress = Rat(k, Len(combinations))
              /\ progressCalls[k].current = combinations[k]
        /\ \A j, k \in 1..Len(progressCalls) :
              j < k => RLt(progressCalls[j].progress, progressCalls[k].progress)
        /\ gpc = "done" =>
              /\ progressCalls # <<>>
              /\ progressCalls[Len(progressCalls)].progress = RInt(1)

\* fitness x is at least fitness y
AtLeast(x, y) == ~Greater(y, x)

\* The first count individuals of pop are count highest-fitness individuals
\* of prev, each with its params and fitness.
KeepsTop(prev, pop, count) ==
    \E idx \in [1..count -> 1..Len(prev)] :
        /\ \A j, k \in 1..count : j # k => idx[j] # idx[k]
        /\ \A j \in 1..count :
              /\ pop[j].params = prev[idx[j]].params
              /\ pop[j].fitness = prev[idx[j]].fitness
        /\ \A j \in 1..count, k \in 1..Len(prev) :
              (\A l \in 1..count : idx[l] # k) => AtLeast(prev[idx[j]].fitness, prev[k].fitness)

\* C23, after a generation with 1 <= eliteCount <= populationSize: the
\* population holds the eliteCount highest-fitness individuals of the
\* population before, params and fitness unchanged, it has populationSize
\* individuals, and its best fitness is not below the best fitness before.
C23_StateElitesKept ==
    /\ genetic.pc \in {"loop", "break", "done"}
    /\ genetic.previous # <<>>
    /\ genetic.geneticConfig.eliteCount >= 1
    /\ genetic.geneticConfig.eliteCount <= genetic.geneticConfig.populationSize
    => /\ KeepsTop(genetic.previous, genetic.population, genetic.geneticConfig.eliteCount)
       /\ Len(genetic.population) = genetic.geneticConfig.populationSize
       /\ Len(genetic.previous) = genetic.geneticConfig.populationSize
       /\ AtLeast(GetBest(genetic.population).fitness, GetBest(genetic.previous).fitness)

\* C23, every step: bestOverall.fitness does not decrease.
C23_StepBestNeverDecreases ==
    genetic.pc # "idle" /\ genetic.bestOverall # <<>> =>
        AtLeast(genetic'.bestOverall.fitness, genetic.bestOverall.fitness)

\* C23: elitism keeps the top eliteCount individuals unchanged, the
\* population size stays populationSize, and neither the best fitness of the
\* population nor bestOverall.fitness decreases from one generation to the next.
C23_ElitismKeepsTheBest == []C23_StateElitesKept /\ [][C23_StepBestNeverDecreases]_vars

\* A generation with one elite in a population of two has been evaluated:
\* the elite stood second in the population before, ahead of an individual
\* with a lower finite fitness, and the offspring fared worse than the elite.
C23_Witness ==
    /\ genetic.pc \in {"loop", "break"}
    /\ genetic.previous # <<>>
    /\ genetic.geneticConfig.eliteCount = 1
    /\ genetic.geneticConfig.populationSize = 2
    /\ Greater(genetic.previous[2].fitness, genetic.previous[1].fitness)
    /\ IsFinite(genetic.previous[1].fitness)
    /\ Greater(genetic.population[1].fitness, genetic.population[2].fitness)

\* The steps of optimize are taken one after the other until it returns.
SpecGeneticFair == SpecGenetic /\ WF_vars(NextGenetic)

\* bestOverall.fitness did not strictly improve in generation g (1-based).
NotImproved(g) == ~Greater(genetic.bestHistory[g + 1], genetic.bestHistory[g])

\* The number of consecutive generations up to generation g without a strict
\* improvement of bestOverall.fitness.
RECURSIVE Streak(_)
Streak(g) == IF g = 0 \/ ~NotImproved(g) THEN 0 ELSE Streak(g - 1) + 1

\* C24, every state: no more than generations generations are run; the
\* counter is the number of consecutive generations without improvement;
\* optimize has stopped early exactly when that number has reached
\* earlyStopGenerations, which no earlier generation had done.
C24_StateStopsAtFirstStall ==
    genetic.pc \in {"loop", "break", "evaluate", "done"} /\ genetic.bestHistory # <<>> =>
        LET g == Len(genetic.bestHistory) - 1
            stop == genetic.geneticConfig.earlyStopGenerations
        IN  /\ g <= genetic.geneticConfig.generations
            /\ genetic.generationsWithoutImprovement = Streak(g)
            /\ \A h \in 0..(g - 1) : Streak(h) < stop
            /\ genetic.pc = "break" => g >= 1 /\ Streak(g) >= stop
            /\ genetic.pc \in {"loop", "evaluate"} => g = 0 \/ Streak(g) < stop
            /\ genetic.pc = "done" => \/ g >= 1 /\ Streak(g) >= stop
                                      \/ g = genetic.geneticConfig.generations

\* C24, the step that ends a generation: the counter returns to 0 when the
\* best fitness of the generation strictly exceeds bestOverall.fitness.
C24_StepResetOnImprovement ==
    /\ genetic.pc = "evaluate"
    /\ genetic'.pc \in {"loop", "break"}
    /\ ~genetic.initial
    /\ Greater(GetBest(genetic'.population).fitness, genetic.bestOverall.fitness)
    => /\ genetic'.generationsWithoutImprovement = 0
       /\ genetic'.bestOverall.fitness = GetBest(genetic'.population).fitness

\* C24: optimize terminates after at most generations generations; it stops
\* after generation g exactly when g is the first generation at which
\* bestOverall.fitness has not strictly improved for earlyStopGenerations
\* consecutive generations; the count of such generations returns to 0 when
\* a generation's best fitness strictly exceeds bestOverall.fitness.
C24_TerminatesAndStopsEarly ==
    /\ []C24_StateStopsAtFirstStall
    /\ [][C24_StepResetOnImprovement]_vars
    /\ <>(genetic.pc = "done")

\* optimize returned after stopping early before the last generation, with
\* an improvement followed by earlyStopGenerations = 1 stalled generation.
C24_Witness ==
    /\ genetic.pc = "done"
    /\ Len(genetic.bestHistory) = 3
    /\ genetic.geneticConfig.generations > 2
    /\ genetic.geneticConfig.earlyStopGenerations = 1
    /\ Greater(genetic.bestHistory[2], genetic.bestHistory[1])
    /\ genetic.generationsWithoutImprovement = 1

\* C25 (as claimed): the result optimize returns carries as bestMetricValue
\* the metric value that allResults records for bestParams, with maximize
\* true and false alike.
C25_BestMetricValueIsRecordedMetric ==
    genetic.pc = "done" =>
        \E k \in 1..Len(genetic.returned.allResults) :
            /\ genetic.returned.allResults[k].params = genetic.returned.bestParams
            /\ genetic.returned.allResults[k].metricValue = genetic.returned.bestMetricValue

\* C26 (as claimed): with at least one candle, numWindows >= 1 and
\* 0 < trainRatio < 1, generateWindows reads no candle outside the array, and
\* every window it returns has
\* 0 <= trainIndex.start <= trainIndex.end < testIndex.start <= testIndex.end
\* <= candles.length - 1 with testIndex.start = trainIndex.end + 1.
C26_WindowsWellFormed ==
    /\ walkForward.pc \in {"loop", "thrown", "done"}
    /\ walkForward.totalCandles >= 1
    /\ walkForward.walkForwardConfig.numWindows >= 1
    /\ walkForward.walkForwardConfig.trainRatio > 0
    /\ walkForward.walkForwardConfig.trainRatio < 10
    => /\ ~GenerateWindows(walkForward.totalCandles, walkForward.walkForwardConfig).threw
       /\ \A k \in 1..Len(walkForward.windows) :
             LET win == walkForward.windows[k]
             IN  /\ 0 <= win.trainIndex.start
                 /\ win.trainIndex.start <= win.trainIndex.end
                 /\ win.trainIndex.end < win.testIndex.start
                 /\ win.testIndex.start <= win.testIndex.end
                 /\ win.testIndex.end <= walkForward.totalCandles - 1
                 /\ win.testIndex.start = win.trainIndex.end + 1

\* --------------------------------------------------------------------------
\* BacktestEngine: a candle that reaches both levels, a signal in the
\* direction of the open position
\* --------------------------------------------------------------------------

\* The step about to be taken is the exit check of a candle whose range
\* reaches both the stop loss and the take profit of the open position.
BothLevelsReached ==
    /\ AtStmt("checkExitConditions")
    /\ position # <<>>
    /\ StopReached(position[1], Candle)
    /\ TargetReached(position[1], Candle)

\* C27, the exit check of such a candle: the position is closed into one new
\* trade, filled for the stop-loss level (the level itself when slippage is
\* 0, moved by the slippage offset otherwise) and not for the take profit.
C27_StepStopLossWins ==
    BothLevelsReached =>
        /\ position' = <<>>
        /\ Len(Trades') = Len(Trades) + 1
        /\ SubSeq(Trades', 1, Len(Trades)) = Trades
        /\ LastOf(Trades').id = position[1].id
        /\ LastOf(Trades').exitTime = Candle.timestamp
        /\ LastOf(Trades').exitPrice = AfterSlippage(position[1].direction,
                                                     position[1].stopLoss)
        /\ LastOf(Trades').exitPrice # AfterSlippage(position[1].direction,
                                                     position[1].takeProfit)
        /\ config.slippage = 0 => LastOf(Trades').exitPrice = position[1].stopLoss

\* C27, every state: no position has two exits among the trades.
C27_StateOneExit ==
    \A j, k \in 1..Len(Trades) : j # k => Trades[j].id # Trades[k].id

\* C27: when one candle reaches both the stop loss and the take profit of
\* the open position, the engine closes the position exactly once, at the
\* stop loss; it records neither the take-profit exit nor two exits.
C27_StopLossBeforeTakeProfit == []C27_StateOneExit /\ [][C27_StepStopLossWins]_vars

\* The exit check has just closed a short position on a candle that reached
\* both its stop loss and its take profit.
C27_Witness ==
    /\ AtStmt("onCandle")
    /\ position = <<>>
    /\ Len(Trades) >= 1
    /\ LastOf(Trades).exitTime = Candle.timestamp
    /\ LastOf(Trades).direction = "short"
    /\ StopReached(LastOf(Trades), Candle)
    /\ TargetReached(LastOf(Trades), Candle)
    /\ LastOf(Trades).exitPrice = AfterSlippage("short", LastOf(Trades).stopLoss)

\* The signal about to be executed is a buy on a long position or a sell on a
\* short one.
SameDirectionSignal ==
    /\ AtStmt("executeSignal")
    /\ signal # <<>>
    /\ position # <<>>
    /\ \/ signal[1].type = "buy" /\ position[1].direction = "long"
       \/ signal[1].type = "sell" /\ position[1].direction = "short"

\* C28, the execution of such a signal: the position stays as it is, no trade
\* is made, equity and the id counter keep their values.
C28_StepPositionUntouched ==
    SameDirectionSignal =>
        /\ position' = position
        /\ Trades' = Trades
        /\ equity' = equity
        /\ tradeIdCounter' = tradeIdCounter

\* C28, every state with an open position: executing the auto-breakeven
\* signal that PriceAction30MStrategy returns for the position on the current
\* candle changes nothing, the stop loss of the position included.
C28_StateBreakevenIgnored ==
    currentIndex < Len(candles) /\ position # <<>> /\ AutoBreakeven(Candle, position) # <<>> =>
        /\ AutoBreakeven(Candle, position)[1].type
              = (IF position[1].direction = "long" THEN "buy" ELSE "sell")
        /\ ExecuteSignal(Core, config, AutoBreakeven(Candle, position)[1], Candle) = Core

MaxRerunTail == 4

\* The fields of a PriceAction30MStrategy after its constructor.
NewPA30M ==
    [candles30M |-> <<>>, srZones |-> <<>>, currentTrend |-> "neutral",
     fibLevels |-> <<>>, pendingEntry |-> <<>>]

\* init(candles, config) on an instance with fields st: onInit assigns
\* candles30M, srZones, the trend and the Fibonacci levels; pendingEntry is
\* not assigned and keeps the value the last run left.
OnInitOf(st, cs) == [OnInit(cs) EXCEPT !.pendingEntry = st.pendingEntry]

\* Candles after the first two periods: flat, a small green one, a plunge
\* below the stop that closes higher, a small red one, a surge above the stop
\* that closes lower.
RerunShapes ==
    { [open |-> 10, high |-> 10, low |-> 10, close |-> 10],
      [open |-> 10, high |-> 11, low |-> 10, close |-> 11],
      [open |-> 11, high |-> 12, low |-> 5, close |-> 12],
      [open |-> 10, high |-> 10, low |-> 9, close |-> 9],
      [open |-> 9, high |-> 15, low |-> 8, close |-> 8] }

RerunSeries ==
    UNION { { [k \in 1..(6 + n) |-> MinuteCandle(IF k <= 6 THEN pre[k] ELSE t[k - 6], k - 1)]
              : pre \in StrategyPrefixes, t \in [1..n -> RerunShapes] }
            : n \in 1..MaxRerunTail }

\* The Signal object onCandle returned, as the engine reads it: size is absent.
EngineSignal(sig) ==
    IF sig = <<>> THEN <<>>
    ELSE << [type |-> sig[1].type, size |-> 0, stopLoss |-> sig[1].stopLoss,
             takeProfit |-> sig[1].takeProfit] >>

\* new BacktestEngine(config) and new PriceAction30MStrategy(); candlesA is
\* the series handed to every run.
InitRerun ==
    /\ EngineParked
    /\ GridIdle
    /\ ToolsIdle
    /\ candlesA \in RerunSeries
    /\ candlesB = <<>>
    /\ strategyA = NewPA30M
    /\ strategyB = <<>>
    /\ nextIndex = 0
    /\ signalsA = <<>>
    /\ signalsB = <<>>

\* strategy.init(this.candles, this.config) of the instance
RerunStrategyInit ==
    /\ pc = "init"
    /\ callLog' = Append(callLog, [op |-> "init", candles |-> candles])
    /\ strategyA' = OnInitOf(strategyA, candles)
    /\ pc' = RunLoop[1]
    /\ UNCHANGED <<gridVars, toolVars, candlesA, candlesB, strategyB, nextIndex, signalsA,
                   signalsB, config, candles, currentIndex, position, trades, equity,
                   equityCurve, tradeIdCounter, heap, signal, results, runs, aborted>>

\* const signal = strategy.onCandle(this.currentIndex, history, this.position)
\* of the instance
RerunOnCandle ==
    /\ AtStmt("onCandle")
    /\ callLog' = Append(callLog,
                         [op |-> "onCandle", index |-> currentIndex,
                          history |-> GetHistoricalCandles(candles, currentIndex),
                          position |-> position,
                          curveLen |-> Len(heap[equityCurve])])
    /\ LET r == PA30MOnCandle(strategyA, candles, currentIndex, position)
           a == Advance("onCandle")
       IN  /\ strategyA' = r.st
           /\ pc' = a.pc
           /\ currentIndex' = a.currentIndex
           /\ signal' = IF a.wraps THEN <<>> ELSE EngineSignal(r.signal)
    /\ UNCHANGED <<gridVars, toolVars, candlesA, candlesB, strategyB, nextIndex, signalsA,
                   signalsB, config, candles, position, trades, equity, equityCurve,
                   tradeIdCounter, heap, results, runs, aborted>>

NextRerun ==
    \/ RunStart(candlesA, MaxRuns)
    \/ RerunStrategyInit
    \/ CheckExit
    \/ RerunOnCandle
    \/ Execute
    \/ UpdateEquityCurve
    \/ CloseAtEnd
    \/ OnComplete
    \/ Return

SpecRerun == InitRerun /\ [][NextRerun]_vars

\* C29 (as claimed): the runs of one strategy instance on the same candles
\* and config return identical trades and identical equity curves.
C29_RerunsAreIdentical ==
    \A j, k \in 1..Len(results) :
        /\ results[j].tradesAtReturn = results[k].tradesAtReturn
        /\ results[j].equityCurveAtReturn = results[k].equityCurveAtReturn

----------------------------------------------------------------------------
(* GridSearchOptimizer.generateCombinations, one loop test at a time       *)
(* (src/unnamed/part_008, 102-124), followed by the evaluation loop of     *)
(* optimize.  `enumeration.frames` holds the loop variable `value` of      *)
(* every active call of generateRecursive, outermost first: the last       *)
(* entry belongs to the loop whose test comes next.  A loop variable that  *)
(* decreases without end is held at LeastValue, as a double settles once   *)
(* value + step = value (or at -Infinity); the number of combinations      *)
(* pushed is counted up to MaxPushed.                                      *)

MaxEnumKeys == 2

MaxMagnitude == 3

MaxPushed == 5

LeastValue == 0 - MaxMagnitude

\* paramRanges[key]: ranges with a positive, zero and negative step, each
\* with min < max, min = max and min > max.
EnumRanges ==
    [min : {0, 1, 2}, max : {1}, step : {0 - 1, 0, 1}]

\* The paramRanges of Object.keys order, zero to MaxEnumKeys keys.
EnumParamRanges ==
    UNION { [1..n -> EnumRanges] : n \in 0..MaxEnumKeys }

\* value += range.step, with |step| taken as at least 1
NextValueStepsForward(range, value) ==
    value + Max2(range.step, 1)

\* value += range.step
NextValue(range, value) ==
    Max2(value + range.step, LeastValue)

\* value <= range.max
LoopContinues(range, value) == value <= range.max

\* combinations.push(...)
Pushed(n) == Min2(n + 1, MaxPushed)

\* new GridSearchOptimizer(...); optimize(strategyFactory, baseParams) has
\* been called
InitEnumerate ==
    /\ EngineParked
    /\ StrategyIdle
    /\ GridIdle
    /\ IdleBut("enumeration")
    /\ \E ranges \in EnumParamRanges :
         enumeration = [pc |-> "start", paramRanges |-> ranges, frames |-> <<>>,
                        pushed |-> 0, evaluated |-> 0]

enumerationOthers == <<engineVars, strategyVars, gridVars, genetic, walkForward,
                       monteCarlo, metricsCall, indicatorCall, paper>>

\* generateRecursive(0, {}): with no key the one combination is pushed and
\* the call returns, else the loop of the first key starts at range.min
GenerateRecursiveStart ==
    /\ enumeration.pc = "start"
    /\ enumeration' =
         IF Len(enumeration.paramRanges) = 0
         THEN [enumeration EXCEPT !.pc = "evaluate", !.pushed = Pushed(@)]
         ELSE [enumeration EXCEPT !.pc = "loop",
                                  !.frames = << enumeration.paramRanges[1].min >>]
    /\ UNCHANGED enumerationOthers

\* The loop test holds at an index before the last: generateRecursive(index
\* + 1, ...) starts the loop of the next key at its range.min
LoopEnter ==
    /\ enumeration.pc = "loop"
    /\ LET k == Len(enumeration.frames)
       IN /\ k < Len(enumeration.paramRanges)
          /\ LoopContinues(enumeration.paramRanges[k], enumeration.frames[k])
          /\ enumeration' =
               [enumeration EXCEPT
                  !.frames = Append(@, enumeration.paramRanges[k + 1].min)]
    /\ UNCHANGED enumerationOthers

\* The loop test holds at the last index: generateRecursive(paramKeys.length,
\* ...) pushes one combination and returns, then value += range.step
LoopPush ==
    /\ enumeration.pc = "loop"
    /\ LET k == Len(enumeration.frames)
       IN /\ k = Len(enumeration.paramRanges)
          /\ LoopContinues(enumeration.paramRanges[k], enumeration.frames[k])
          /\ enumeration' =
               [enumeration EXCEPT
                  !.pushed = Pushed(@),
                  !.frames[k] = NextValue(enumeration.paramRanges[k], @)]
    /\ UNCHANGED enumerationOthers

\* The loop test fails: the call returns; its caller does value +=
\* range.step, and generateCombinations returns when there is no caller
LoopExit ==
    /\ enumeration.pc = "loop"
    /\ LET k == Len(enumeration.frames)
       IN /\ ~LoopContinues(enumeration.paramRanges[k], enumeration.frames[k])
          /\ enumeration' =
               IF k = 1
               THEN [enumeration EXCEPT !.pc = "evaluate", !.frames = <<>>]
               ELSE [enumeration EXCEPT
                       !.frames = [SubSeq(@, 1, k - 1) EXCEPT
                                     ![k - 1] = NextValue(enumeration.paramRanges[k - 1], @)]]
    /\ UNCHANGED enumerationOthers

\* for (let i = 0; i < combinations.length; i++): one combination evaluated
EvaluateCombination ==
    /\ enumeration.pc = "evaluate"
    /\ enumeration.evaluated < enumeration.pushed
    /\ enumeration' = [enumeration EXCEPT !.evaluated = @ + 1]
    /\ UNCHANGED enumerationOthers

\* i = combinations.length: results sorted, the result object returned
OptimizeReturns ==
    /\ enumeration.pc = "evaluate"
    /\ enumeration.evaluated = enumeration.pushed
    /\ enumeration' = [enumeration EXCEPT !.pc = "done"]
    /\ UNCHANGED enumerationOthers

NextEnumerate ==
    \/ GenerateRecursiveStart
    \/ LoopEnter
    \/ LoopPush
    \/ LoopExit
    \/ EvaluateCombination
    \/ OptimizeReturns

SpecEnumerate == InitEnumerate /\ [][NextEnumerate]_vars

\* optimize is one synchronous call: a statement that can run does run.
SpecEnumerateFair == SpecEnumerate /\ WF_vars(NextEnumerate)

\* A range with step <= 0 and min <= max.
EndlessRange(range) == range.step <= 0 /\ range.min <= range.max

\* Some parameter range has step <= 0 together with min <= max.
HasEndlessRange ==
    \E k \in 1..Len(enumeration.paramRanges) : EndlessRange(enumeration.paramRanges[k])

\* Some range has step <= 0 together with min <= max, and no range before
\* it in key order is empty (min > max): the loop of that range is entered.
EntersEndlessRange ==
    \E k \in 1..Len(enumeration.paramRanges) :
        /\ EndlessRange(enumeration.paramRanges[k])
        /\ \A j \in 1..(k - 1) :
              enumeration.paramRanges[j].min <= enumeration.paramRanges[j].max

OptimizeReturned == enumeration.pc = "done"

====
